---- MODULE Spec2Model ----
(***************************************************************************)
(* A model of e3sm_to_cmip's MPAS utilities (src/e3sm_to_cmip/mpas.py):    *)
(*   - remap: the ncremap subprocess call and its two temporary files;     *)
(*   - interp_vertex_to_cell: the kite-area interpolation weights;         *)
(*   - _compute_moc_time_series: regional transport, vertical integration, *)
(*     latitude accumulation, corner averaging, masking, basin stacking.   *)
(* Each part has its own specification; the variables of the other parts   *)
(* stay at their idle values.                                              *)
(*                                                                         *)
(* Numbers are integers.  Python floats that are halves or quarters of     *)
(* integer data are kept exact: 0.5*x is Half(x) on even x, and the 0.25*  *)
(* of the corner average is kept as the numerator (four times the value).  *)
(***************************************************************************)
EXTENDS Integers, Sequences, FiniteSets, TLC

VARIABLES
    \* ---- remap: one entry per invocation
    rpc,            \* position of each invocation in remap
    inFileName,     \* remap's local inFileName ("" before it is set)
    outFileName,    \* remap's local outFileName
    returncode,     \* proc.returncode (-1 before the subprocess ended)
    popenCount,     \* how many times the invocation started ncremap
    dsOpened,       \* whether xarray.open_dataset(outFileName) was called
    outcome,        \* "none", "returned" (a dataset), or the raised exception
    tempFiles,      \* the paths that exist in tempfile.gettempdir()
    \* ---- the mesh (dsMesh) as interp_vertex_to_cell reads it
    verticesOnCell,     \* [cell][slot], 1-based vertex, 0 = no vertex
    cellsOnVertex,      \* [vertex][degree], 1-based cell, 0 = no cell
    kiteAreasOnVertex,  \* [vertex][degree]
    areaCell,           \* [cell]
    varOnVertices,      \* [vertex], the field to interpolate (one time slice)
    \* ---- interp_vertex_to_cell
    ipc,            \* position in interp_vertex_to_cell
    iVertex,        \* the loop variable of the slot loop
    weights,        \* [cell][slot], numerators of the weights
    weightsDen,     \* [cell], their denominators (1 before weights /= areaCell)
    varOnCells,     \* [cell], numerators of the result over weightsDen
    \* ---- the inputs of _compute_moc_time_series (dsMesh, dsMasks)
    latCell,                \* [cell], latitude (see Rad2Deg)
    maxLevelCell,           \* [cell], 1-based bottom level, 0 = no ocean
    regionCellMasks,        \* [region][cell], 1 = member
    regionNamesIn,          \* [region], dsMasks.regionNames
    transectEdgeGlobalIDs,  \* [region][entry], 1-based edge, <= 0 = padding
    \* ---- _compute_moc_time_series
    mpc,            \* position in _compute_moc_time_series
    regionNames,    \* the list ['Global'] + names
    regionIndex,    \* loop variable of the transport loop
    transport,      \* dict: name -> [time][level]
    cellMasks,      \* dict: name -> [cell]
    namePos,        \* position of the second loop in regionNames
    mocSlices,      \* the list mocSlices of the last basin iteration
    binCounts,      \* the list binCounts of the last basin iteration
    mocs,           \* dict: name -> [time][depth][lat], 4 * value or NaN
    mocsOut,        \* the returned array, [basin][time][depth][lat]
    regionNamesCoord,   \* the returned regionNames coordinate
    \* ---- _parse_date_string
    dateString,     \* the argument, a sequence of characters
    ppc,            \* position in _parse_date_string
    parsed,         \* [err, val]: the exception raised, or the tuple returned
    \* ---- add_time
    xtimeStart,     \* dsIn.xtime_startMonthly, one string per time step
    xtimeEnd,       \* dsIn.xtime_endMonthly
    offsetYears,    \* the argument offsetYears
    tpc,            \* position in add_time
    timeOut,        \* [err, time, time_bnds]: the exception or the axis
    \* ---- get_cell_masks (on dsMesh.maxLevelCell) and _compute_depth
    refBottomDepth, \* dsMesh.refBottomDepth, [level]
    gpc,            \* position in get_cell_masks
    masksOut,       \* [err, cellMask2D, cellMask3D]: what get_cell_masks gave
    dpc,            \* position in _compute_depth
    depthOut,       \* [depth, depth_bnds]: what _compute_depth returned
    \* ---- remap's regridded data set (lines 54-70)
    hasCellMask,    \* 'cellMask' in ds
    cellMaskField,  \* ds['cellMask'], [point], the coverage
    dsIn,           \* the other variables as read: name -> [dims, data]
    npc,            \* position in lines 62-70
    dsOut,          \* the variables after lines 62-70
    dsOutHasCellMask,   \* whether cellMask is still in the data set
    \* ---- zhalfo.handle (from line 83), setup_cmor, write_cmor
    hOp,            \* the operation the caller invoked
    hFault,         \* the call the environment makes fail, or "none"
    hFaultAxis,     \* which cmor.axis call fails when hFault = "axis"
    hComponent,     \* setup_cmor's component
    hHasNaN,        \* numpy.any(numpy.isnan(ds[varname]))
    hpc,            \* position in the operation
    hAxisIds,       \* axis_ids of write_cmor
    hFilled,        \* NaNs were replaced by fillValue
    hVarOpen,       \* the cmor variable is created and not yet closed
    hLogged,        \* logging.exception was called
    hRuns,          \* how often each external call was made
    hDetected,      \* where an error was detected, or "none"
    hResult,        \* what the caller of the operation received
    \* ---- the MOC computation on an input chunked along Time
    timeBlocks,     \* the blocks of the Time axis, in axis order
    cpc,            \* the stage of the chunked computation
    blockTransport, \* per block: the regions' transport, <<>> until computed
    chunkTransport, \* the transport gathered from all blocks
    chunkSeeds,     \* per basin: mocSlice, from the gathered transport
    blockMoc,       \* per block: the basins' accumulation, <<>> until computed
    chunkMocs,      \* per basin: mocSlices and moc gathered from all blocks
    chunkOrder,     \* the blocks in the order the workers computed them
    \* ---- zhalfo.handle (lines 49-76) and get_sea_floor_values
    zpc,            \* position in zhalfo.handle's computation of the slices
    zhalfoOut,      \* ds['zhalfo'] before add_mask: [Time][cell][olevhalf]
    spc,            \* position in get_sea_floor_values
    seaFloorOut     \* the sampled variable: [Time][cell]

remapVars == <<rpc, inFileName, outFileName, returncode, popenCount,
               dsOpened, outcome, tempFiles>>

interpVars == <<verticesOnCell, cellsOnVertex, kiteAreasOnVertex, areaCell,
                varOnVertices, ipc, iVertex, weights, weightsDen, varOnCells>>

mocInputs == <<latCell, maxLevelCell, regionCellMasks, regionNamesIn,
               transectEdgeGlobalIDs>>

mocVars == <<mocInputs, mpc, regionNames, regionIndex, transport, cellMasks,
             namePos, mocSlices, binCounts, mocs, mocsOut, regionNamesCoord>>

dateVars == <<dateString, ppc, parsed>>

\* The variables of the utilities around the three big operations.
timeVars == <<xtimeStart, xtimeEnd, offsetYears, tpc, timeOut>>
meshVars == <<refBottomDepth, gpc, masksOut, dpc, depthOut>>
normVars == <<hasCellMask, cellMaskField, dsIn, npc, dsOut, dsOutHasCellMask>>
handleVars == <<hOp, hFault, hFaultAxis, hComponent, hHasNaN, hpc, hAxisIds,
                hFilled, hVarOpen, hLogged, hRuns, hDetected, hResult>>
chunkVars == <<timeBlocks, cpc, blockTransport, chunkTransport, chunkSeeds,
               blockMoc, chunkMocs, chunkOrder>>
floorVars == <<zpc, zhalfoOut, spc, seaFloorOut>>
utilVars == <<dateVars, timeVars, meshVars, normVars, handleVars, chunkVars,
              floorVars>>

vars == <<remapVars, interpVars, mocVars, utilVars>>

(***************************************************************************)
(* Bounds and helpers                                                      *)
(***************************************************************************)

\* Sizes of the mesh.
NCells == 2
NVertices == 3

NVertLevels == 2
NTime == 2
\* dsMasks.sizes['nRegions']: the named regions.
NRegions == 2

Cells == 1..NCells
Vertices == 1..NVertices
Levels == 1..NVertLevels
Interfaces == 1..(NVertLevels + 1)
Times == 1..NTime
Regions == 1..NRegions

\* numpy's indexing of an axis of length n with a 0-based index i: a negative
\* index counts from the end.
PyIndex(i, n) == IF i < 0 THEN i + n ELSE i

\* arr[i] for a 0-based (possibly negative) numpy index i.
At0(arr, i) == arr[PyIndex(i, Len(arr)) + 1]

\* A function over 1..n as the array of its values.
Array(f) == SubSeq(f, 1, Len(f))

RECURSIVE SeqSum(_)
SeqSum(s) == IF s = <<>> THEN 0 ELSE Head(s) + SeqSum(Tail(s))

\* The elements of a set of integers in ascending order.
RECURSIVE SortedSeq(_)
SortedSeq(S) ==
    IF S = {} THEN <<>>
    ELSE LET m == CHOOSE x \in S : \A y \in S : x <= y
         IN <<m>> \o SortedSeq(S \ {m})

\* seq followed by zeros up to length n.
PadTo(seq, n) == [i \in 1..n |-> IF i <= Len(seq) THEN seq[i] ELSE 0]

Reverse(seq) == [i \in 1..Len(seq) |-> seq[Len(seq) + 1 - i]]

(***************************************************************************)
(* remap (mpas.py 22-76) and _get_temp_path (mpas.py 717-720)              *)
(***************************************************************************)

\* Concurrent invocations of remap that share one temp directory.
Invocations == {"A", "B"}

\* The candidate names tempfile._get_candidate_names() can yield.  The
\* generator draws them at random and _get_temp_path neither creates the
\* file nor checks that the name is free.
TempNames == {"t1.nc", "t2.nc", "t3.nc", "t4.nc"}

RemapInit ==
    /\ rpc = [p \in Invocations |-> "start"]
    /\ inFileName = [p \in Invocations |-> ""]
    /\ outFileName = [p \in Invocations |-> ""]
    /\ returncode = [p \in Invocations |-> -1]
    /\ popenCount = [p \in Invocations |-> 0]
    /\ dsOpened = [p \in Invocations |-> FALSE]
    /\ outcome = [p \in Invocations |-> "none"]
    /\ tempFiles = {}

\* An exception leaves remap: nothing after the raising line runs.
Raise(p, exc) ==
    /\ rpc' = [rpc EXCEPT ![p] = "raised"]
    /\ outcome' = [outcome EXCEPT ![p] = exc]

\* lines 26-27: two names are drawn; no file is created yet.
GetTempPaths(p) ==
    /\ UNCHANGED <<interpVars, mocVars, utilVars>>
    /\ rpc[p] = "start"
    /\ \E a \in TempNames, b \in TempNames :
          /\ inFileName' = [inFileName EXCEPT ![p] = a]
          /\ outFileName' = [outFileName EXCEPT ![p] = b]
    /\ rpc' = [rpc EXCEPT ![p] = "write"]
    /\ UNCHANGED <<returncode, popenCount, dsOpened, outcome, tempFiles>>

\* line 32: write_netcdf(ds, inFileName) writes the snapshot.
WriteNetcdfOk(p) ==
    /\ UNCHANGED <<interpVars, mocVars, utilVars>>
    /\ rpc[p] = "write"
    /\ tempFiles' = tempFiles \cup {inFileName[p]}
    /\ rpc' = [rpc EXCEPT ![p] = "popen"]
    /\ UNCHANGED <<inFileName, outFileName, returncode, popenCount, dsOpened,
                   outcome>>

\* line 32 failing (disk full, encoding error): to_netcdf raises, with the
\* file created (partially written) or not.
WriteNetcdfFail(p) ==
    /\ UNCHANGED <<interpVars, mocVars, utilVars>>
    /\ rpc[p] = "write"
    /\ \E created \in BOOLEAN :
          tempFiles' = IF created THEN tempFiles \cup {inFileName[p]}
                       ELSE tempFiles
    /\ Raise(p, "IOError")
    /\ UNCHANGED <<inFileName, outFileName, returncode, popenCount, dsOpened>>

\* lines 45-48: Popen starts ncremap and communicate() blocks for its exit.
\* On success the output file exists; on failure ncremap may have left one.
RunNcremap(p) ==
    /\ UNCHANGED <<interpVars, mocVars, utilVars>>
    /\ rpc[p] = "popen"
    /\ popenCount' = [popenCount EXCEPT ![p] = @ + 1]
    /\ \E rc \in {0, 1}, wrote \in BOOLEAN :
          /\ rc = 0 => wrote
          /\ returncode' = [returncode EXCEPT ![p] = rc]
          /\ tempFiles' = IF wrote THEN tempFiles \cup {outFileName[p]}
                          ELSE tempFiles
    /\ rpc' = [rpc EXCEPT ![p] = "check"]
    /\ UNCHANGED <<inFileName, outFileName, dsOpened, outcome>>

\* A retrying variant of lines 49-52: a failed ncremap is started once more.
CheckReturncodeRetry(p) ==
    /\ UNCHANGED <<interpVars, mocVars, utilVars>>
    /\ rpc[p] = "check"
    /\ IF returncode[p] # 0
       THEN IF popenCount[p] < 2
            THEN /\ rpc' = [rpc EXCEPT ![p] = "popen"]
                 /\ UNCHANGED outcome
            ELSE Raise(p, "TypeError")
       ELSE /\ rpc' = [rpc EXCEPT ![p] = "open"]
            /\ UNCHANGED outcome
    /\ UNCHANGED <<inFileName, outFileName, returncode, popenCount, dsOpened,
                   tempFiles>>

\* lines 49-52: a non-zero return code raises.  CalledProcessError is built
\* with one argument where its constructor needs two, so what reaches the
\* caller is the TypeError of that construction.
CheckReturncode(p) ==
    /\ UNCHANGED <<interpVars, mocVars, utilVars>>
    /\ rpc[p] = "check"
    /\ IF returncode[p] # 0
       THEN Raise(p, "TypeError")
       ELSE /\ rpc' = [rpc EXCEPT ![p] = "open"]
            /\ UNCHANGED outcome
    /\ UNCHANGED <<inFileName, outFileName, returncode, popenCount, dsOpened,
                   tempFiles>>

\* lines 54-60: open_dataset and load read the output file; a missing or
\* unreadable file raises.
OpenDataset(p) ==
    /\ UNCHANGED <<interpVars, mocVars, utilVars>>
    /\ rpc[p] = "open"
    /\ dsOpened' = [dsOpened EXCEPT ![p] = TRUE]
    /\ \/ /\ outFileName[p] \in tempFiles
          /\ rpc' = [rpc EXCEPT ![p] = "normalize"]
          /\ UNCHANGED outcome
       \/ Raise(p, "IOError")
    /\ UNCHANGED <<inFileName, outFileName, returncode, popenCount, tempFiles>>

\* lines 62-70: mask and normalize by cellMask, all in memory.
MaskAndNormalize(p) ==
    /\ UNCHANGED <<interpVars, mocVars, utilVars>>
    /\ rpc[p] = "normalize"
    /\ rpc' = [rpc EXCEPT ![p] = "removeIn"]
    /\ UNCHANGED <<inFileName, outFileName, returncode, popenCount, dsOpened,
                   outcome, tempFiles>>

\* line 73: os.remove(inFileName); a path that does not exist raises.
RemoveIn(p) ==
    /\ UNCHANGED <<interpVars, mocVars, utilVars>>
    /\ rpc[p] = "removeIn"
    /\ IF inFileName[p] \in tempFiles
       THEN /\ tempFiles' = tempFiles \ {inFileName[p]}
            /\ rpc' = [rpc EXCEPT ![p] = "removeOut"]
            /\ UNCHANGED outcome
       ELSE /\ Raise(p, "FileNotFoundError")
            /\ UNCHANGED tempFiles
    /\ UNCHANGED <<inFileName, outFileName, returncode, popenCount, dsOpened>>

\* line 74: os.remove(outFileName).
RemoveOut(p) ==
    /\ UNCHANGED <<interpVars, mocVars, utilVars>>
    /\ rpc[p] = "removeOut"
    /\ IF outFileName[p] \in tempFiles
       THEN /\ tempFiles' = tempFiles \ {outFileName[p]}
            /\ rpc' = [rpc EXCEPT ![p] = "return"]
            /\ UNCHANGED outcome
       ELSE /\ Raise(p, "FileNotFoundError")
            /\ UNCHANGED tempFiles
    /\ UNCHANGED <<inFileName, outFileName, returncode, popenCount, dsOpened>>

\* line 76: return ds.
ReturnDs(p) ==
    /\ UNCHANGED <<interpVars, mocVars, utilVars>>
    /\ rpc[p] = "return"
    /\ rpc' = [rpc EXCEPT ![p] = "returned"]
    /\ outcome' = [outcome EXCEPT ![p] = "returned"]
    /\ UNCHANGED <<inFileName, outFileName, returncode, popenCount, dsOpened,
                   tempFiles>>

RemapNext ==
    \E p \in Invocations :
        \/ GetTempPaths(p)
        \/ WriteNetcdfOk(p)
        \/ WriteNetcdfFail(p)
        \/ RunNcremap(p)
        \/ CheckReturncode(p)
        \/ OpenDataset(p)
        \/ MaskAndNormalize(p)
        \/ RemoveIn(p)
        \/ RemoveOut(p)
        \/ ReturnDs(p)

RemapIdle ==
    /\ rpc = [p \in Invocations |-> "idle"]
    /\ inFileName = [p \in Invocations |-> ""]
    /\ outFileName = [p \in Invocations |-> ""]
    /\ returncode = [p \in Invocations |-> -1]
    /\ popenCount = [p \in Invocations |-> 0]
    /\ dsOpened = [p \in Invocations |-> FALSE]
    /\ outcome = [p \in Invocations |-> "none"]
    /\ tempFiles = {}

\* remap has left the invocation's frame: it returned or it raised.
RemapExited(p) == rpc[p] \in {"returned", "raised"}

\* C1: on every exit path of remap (normal return, non-zero exit status of
\* ncremap, a failure while writing the snapshot or reading the output),
\* neither the input snapshot path nor the output path of that call exists
\* any more when control is back with the caller.
C1_TempFilesRemovedOnEveryExit ==
    \A p \in Invocations :
        RemapExited(p) =>
            /\ inFileName[p] \notin tempFiles
            /\ outFileName[p] \notin tempFiles

\* C2: ncremap is started at most once per call, and exactly once in every
\* call that got as far as the subprocess; once it has exited with a
\* non-zero status the call is either about to raise or has raised an
\* error, it never opened the output dataset and never returns one.
C2_NonZeroExitRaisesWithoutRetry ==
    \A p \in Invocations :
        /\ popenCount[p] <= 1
        /\ rpc[p] \in {"check", "open", "normalize", "removeIn", "removeOut",
                       "return", "returned"} => popenCount[p] = 1
        /\ returncode[p] \notin {-1, 0} =>
              /\ popenCount[p] = 1
              /\ rpc[p] \in {"check", "raised"}
              /\ ~dsOpened[p]
              /\ rpc[p] = "check" => outcome[p] = "none"
              /\ rpc[p] = "raised" => outcome[p] \notin {"none", "returned"}

\* C2 witness: an invocation whose single ncremap run exited with status 1
\* has raised.
C2_Witness ==
    \E p \in Invocations :
        /\ rpc[p] = "raised"
        /\ returncode[p] = 1
        /\ popenCount[p] = 1
        /\ outcome[p] = "TypeError"

\* The invocation has drawn its temporary paths and has not left remap.
RemapInFlight(p) == rpc[p] \notin {"idle", "start", "returned", "raised"}

\* C20: temp-file isolation.  For any interleaving of remap invocations
\* sharing one temp directory, the temporary paths in use at the same time
\* are pairwise distinct: the input and the output path of one call differ,
\* and no path of one call is a path of another call.
C20_TempPathsPairwiseDistinct ==
    \A p \in Invocations :
        RemapInFlight(p) =>
            /\ inFileName[p] # outFileName[p]
            /\ \A q \in Invocations \ {p} :
                  RemapInFlight(q) =>
                      {inFileName[p], outFileName[p]} \cap
                          {inFileName[q], outFileName[q]} = {}

(***************************************************************************)
(* interp_vertex_to_cell (mpas.py 452-486)                                 *)
(***************************************************************************)

\* dsMesh.sizes['maxEdges'] and ['vertexDegree']: wide enough for any ring
\* over the mesh's vertices and any set of cells around a vertex.
maxEdges == NVertices
vertexDegree == NCells

\* A mesh with consistent connectivity: every cell has a non-empty vertex
\* ring stored zero-padded, cellsOnVertex lists exactly the cells whose ring
\* holds the vertex (zero-padded at the end, or at the front when rev), every
\* kite area is positive, and areaCell is the sum of the cell's kites.
KiteArea(v, d) == 2 * v + d

ConsistentMesh(rings, rev) ==
    LET cov == [v \in Vertices |->
                  LET row == PadTo(SortedSeq({c \in Cells : v \in rings[c]}),
                                   vertexDegree)
                  IN IF rev THEN Reverse(row) ELSE row]
        kite == [v \in Vertices |-> [d \in 1..vertexDegree |-> KiteArea(v, d)]]
    IN /\ verticesOnCell = [c \in Cells |-> PadTo(SortedSeq(rings[c]), maxEdges)]
       /\ cellsOnVertex = cov
       /\ kiteAreasOnVertex = kite
       /\ areaCell = [c \in Cells |->
              SeqSum([v \in Vertices |->
                  SeqSum([d \in 1..vertexDegree |->
                      IF cov[v][d] = c THEN kite[v][d] ELSE 0])])]

\* The fields interpolated: 1 on every vertex, and one that tells the
\* vertices apart.
UnitField == [v \in Vertices |-> 1]
VertexFields == {UnitField, [v \in Vertices |-> 10 * v]}

InterpInit ==
    /\ \E rings \in [Cells -> (SUBSET Vertices) \ {{}}], rev \in BOOLEAN :
          ConsistentMesh(rings, rev)
    /\ varOnVertices \in VertexFields
    /\ ipc = "weights"
    /\ iVertex = 0
    /\ weights = [c \in Cells |-> [s \in 1..maxEdges |-> 0]]
    /\ weightsDen = [c \in Cells |-> 1]
    /\ varOnCells = [c \in Cells |-> 0]

InterpIdleNoArea ==
    /\ verticesOnCell = <<>>
    /\ cellsOnVertex = <<>>
    /\ kiteAreasOnVertex = <<>>
    /\ varOnVertices = <<>>
    /\ ipc = "idle"
    /\ iVertex = 0
    /\ weights = <<>>
    /\ weightsDen = <<>>
    /\ varOnCells = <<>>

InterpIdle == InterpIdleNoArea /\ areaCell = <<>>

\* lines 466-471 for one cell (0-based iCell0) and one slot: what the inner
\* loop over range(vertexDegree) adds to weights[iCell0, slot].
SlotWeight(iCell0, slot) ==
    LET vertices == verticesOnCell[iCell0 + 1][slot + 1] - 1
        mask1 == vertices > 0
    IN SeqSum([d \in 1..vertexDegree |->
           LET mask2 == (At0(cellsOnVertex, vertices)[d] - 1) = iCell0
           IN IF mask1 /\ mask2 THEN At0(kiteAreasOnVertex, vertices)[d]
              ELSE 0])

\* lines 465-471: one iteration of "for iVertex in range(maxEdges)".
InterpSlot ==
    /\ UNCHANGED <<remapVars, mocVars, utilVars>>
    /\ ipc = "weights"
    /\ weights' = [c \in Cells |-> [s \in 1..maxEdges |->
                      IF s = iVertex + 1
                      THEN weights[c][s] + SlotWeight(c - 1, iVertex)
                      ELSE weights[c][s]]]
    /\ iVertex' = iVertex + 1
    /\ ipc' = IF iVertex + 1 < maxEdges THEN "weights" ELSE "normalize"
    /\ UNCHANGED <<verticesOnCell, cellsOnVertex, kiteAreasOnVertex, areaCell,
                   varOnVertices, weightsDen, varOnCells>>

\* line 477: weights /= dsMesh.areaCell.
InterpNormalize ==
    /\ UNCHANGED <<remapVars, mocVars, utilVars>>
    /\ ipc = "normalize"
    /\ weightsDen' = areaCell
    /\ ipc' = "gather"
    /\ UNCHANGED <<verticesOnCell, cellsOnVertex, kiteAreasOnVertex, areaCell,
                   varOnVertices, iVertex, weights, varOnCells>>

\* lines 481-486: gather the vertex values of every slot (a zero slot reads
\* index -1), multiply by the weights and sum over maxEdges.
InterpGather ==
    /\ UNCHANGED <<remapVars, mocVars, utilVars>>
    /\ ipc = "gather"
    /\ varOnCells' = [c \in Cells |->
           SeqSum([s \in 1..maxEdges |->
               At0(varOnVertices, verticesOnCell[c][s] - 1) * weights[c][s]])]
    /\ ipc' = "done"
    /\ UNCHANGED <<verticesOnCell, cellsOnVertex, kiteAreasOnVertex, areaCell,
                   varOnVertices, iVertex, weights, weightsDen>>

InterpNext == InterpSlot \/ InterpNormalize \/ InterpGather

\* The kite area the mesh attributes to cell c at vertex v.
KiteOfCellAtVertex(c, v) ==
    SeqSum([d \in 1..vertexDegree |->
        IF cellsOnVertex[v][d] = c THEN kiteAreasOnVertex[v][d] ELSE 0])

\* C3: partition of unity.  On a consistent mesh the normalized weights of
\* every cell sum to 1 (numerators sum to the denominator areaCell), a
\* sentinel slot weighs 0, every other slot, the one of vertex 1 included,
\* weighs its kite area, and the field 1 interpolates to 1 at every cell.
C3_PartitionOfUnity ==
    ipc \in {"gather", "done"} =>
        \A c \in Cells :
            /\ SeqSum(weights[c]) = weightsDen[c]
            /\ \A s \in 1..maxEdges :
                  weights[c][s] =
                      IF verticesOnCell[c][s] = 0 THEN 0
                      ELSE KiteOfCellAtVertex(c, verticesOnCell[c][s])
            /\ (ipc = "done" /\ varOnVertices = UnitField) =>
                  varOnCells[c] = weightsDen[c]

(***************************************************************************)
(* compute_moc_streamfunction (mpas.py 356-449) and                        *)
(* _compute_moc_time_series (mpas.py 602-704)                              *)
(***************************************************************************)

\* 0.5 * x; the data below keep x even, so the half is exact.
Half(x) == x \div 2

\* One edge per cell: edge e lies between cell e and cell e + 1, and the last
\* edge is a boundary edge of the first cell, with no second cell.
NEdges == NCells
Edges == 1..NEdges
maxEdgesInTransect == NEdges

\* ---- the mesh and the time-series fields (dsMesh, dsIn)
cellsOnEdge == [e \in Edges |-> IF e = NEdges THEN <<1, 0>> ELSE <<e, e + 1>>]
dvEdge == [e \in Edges |-> e + 2]
MocAreaCell == [c \in Cells |-> c + 1]
\* dims (Time, nEdges, nVertLevels)
normalVelocity == [t \in Times |-> [e \in Edges |-> [k \in Levels |->
                      2 * e - 3 * k + t]]]
normalGMBolusVelocity == [t \in Times |-> [e \in Edges |-> [k \in Levels |->
                             k - e]]]
\* dims (Time, nCells, nVertLevels); even values
layerThickness == [t \in Times |-> [c \in Cells |-> [k \in Levels |->
                      2 * (3 * c + k + t)]]]
\* dims (Time, nCells, nVertLevelsP1)
vertVelocityTop == [t \in Times |-> [c \in Cells |-> [j \in Interfaces |->
                       3 * c - 2 * j + t]]]
vertGMBolusVelocityTop == [t \in Times |-> [c \in Cells |->
                              [j \in Interfaces |-> j - 1]]]
\* dsMasks.transectEdgeMaskSigns, dims (nTransects, nEdges)
transectEdgeMaskSigns == [r \in Regions |-> [e \in Edges |->
                             IF (r + e) % 2 = 0 THEN 1 ELSE -1]]

\* ---- compute_moc_streamfunction, lines 407-419
\* line 407: cellsOnEdge = dsMesh.cellsOnEdge - 1
cellsOnEdge0 == [e \in Edges |-> <<cellsOnEdge[e][1] - 1, cellsOnEdge[e][2] - 1>>]

\* lines 409-411
totalNormalVelocity ==
    [t \in Times |-> [e \in Edges |-> [k \in Levels |->
        normalVelocity[t][e][k] + normalGMBolusVelocity[t][e][k]]]]

\* lines 414-415 for a thickness field lt: the gather uses the 0-based
\* values as they are.
LayerThicknessEdgeOf(lt) ==
    [t \in DOMAIN lt |-> [e \in Edges |-> [k \in Levels |->
        Half(At0(lt[t], cellsOnEdge0[e][1])[k] +
             At0(lt[t], cellsOnEdge0[e][2])[k])]]]

layerThicknessEdge == LayerThicknessEdgeOf(layerThickness)

\* lines 417-419
totalVertVelocityTop ==
    [t \in Times |-> [c \in Cells |-> [j \in Interfaces |->
        vertVelocityTop[t][c][j] + vertGMBolusVelocityTop[t][c][j]]]]

\* ---- Python dicts: the keys in insertion order with their values
DictHas(d, k) == \E i \in 1..Len(d) : d[i].key = k
DictGet(d, k) == d[CHOOSE i \in 1..Len(d) : d[i].key = k].val
DictSet(d, k, v) ==
    IF DictHas(d, k)
    THEN [i \in 1..Len(d) |-> IF d[i].key = k THEN [key |-> k, val |-> v]
                              ELSE d[i]]
    ELSE Append(d, [key |-> k, val |-> v])
DictValues(d) == [i \in 1..Len(d) |-> d[i].val]

\* ---- values that may be NaN
NaN == [nan |-> TRUE, v |-> 0]
Num(x) == [nan |-> FALSE, v |-> x]

\* ---- the latitude bins, lines 619-628
latBinSize == 1
LatMin == -90
LatMax == 90
NLat == (LatMax - LatMin) \div latBinSize
\* lat_bnds[iLat, 0] and lat_bnds[iLat, 1] for 0-based iLat
LatBnds0(iLat) == LatMin + iLat * latBinSize
LatBnds1(iLat) == LatMin + (iLat + 1) * latBinSize

\* line 609: numpy.rad2deg(dsMesh.latCell).  The mesh latitude is held in
\* units of pi/180 rad, so that every latitude used is an integer.
Rad2Deg(x) == x

\* A variant of lines 646-648 that keeps the zero entries.
EdgeIndicesKeepZero(ids) ==
    LET sel == SelectSeq(ids, LAMBDA x : x >= 0)
    IN [i \in 1..Len(sel) |-> sel[i] - 1]

\* lines 646-648: the entries > 0, each minus 1.
EdgeIndices(ids) ==
    LET sel == SelectSeq(ids, LAMBDA x : x > 0)
    IN [i \in 1..Len(sel) |-> sel[i] - 1]

\* lines 645-654 for region index r, with nv for normalVelocity and lte for
\* layerThicknessEdge, both with the dims (Time, nEdges, nVertLevels); the
\* result has the Time axis of nv.
RegionTransportIn(r, nv, lte) ==
    LET edgeIndices == EdgeIndices(transectEdgeGlobalIDs[r])
        edgeSigns == [i \in 1..Len(edgeIndices) |->
                         At0(transectEdgeMaskSigns[r], edgeIndices[i])]
    IN [t \in DOMAIN nv |-> [k \in Levels |->
           SeqSum([i \in 1..Len(edgeIndices) |->
               At0(nv[t], edgeIndices[i])[k]
               * At0(lte[t], edgeIndices[i])[k]
               * At0(dvEdge, edgeIndices[i])
               * edgeSigns[i]])]]

\* lines 645-654 for region index r, with lte for layerThicknessEdge.
RegionTransportOver(r, lte) == RegionTransportIn(r, totalNormalVelocity, lte)

\* A variant of lines 645-654 that leaves the edge signs out.
RegionTransportUnsigned(r) ==
    LET edgeIndices == EdgeIndices(transectEdgeGlobalIDs[r])
    IN [t \in Times |-> [k \in Levels |->
           SeqSum([i \in 1..Len(edgeIndices) |->
               At0(totalNormalVelocity[t], edgeIndices[i])[k]
               * At0(layerThicknessEdge[t], edgeIndices[i])[k]
               * At0(dvEdge, edgeIndices[i])])]]

\* lines 645-654 for region index r (1-based among the named regions).
RegionTransport(r) == RegionTransportOver(r, layerThicknessEdge)

\* cumsum along a row
Cumsum(row) == [k \in 1..Len(row) |-> SeqSum(SubSeq(row, 1, k))]

\* A variant of lines 666-668 that stores the transport, not its cumsum.
MocSliceOfNoCumsum(tr) == [t \in DOMAIN tr |-> <<0>> \o tr[t]]

\* lines 666-668: zeros((nTime, nVertLevels+1)) with [:, 1:] the cumsum.
MocSliceOf(tr) == [t \in DOMAIN tr |-> <<0>> \o Cumsum(tr[t])]

\* lines 675-677: the mask of bin iLat (0-based) for a basin's cell mask.
BinMask(cellMask, iLat) ==
    [c \in Cells |-> /\ cellMask[c] = 1
                     /\ Rad2Deg(latCell[c]) >= LatBnds0(iLat)
                     /\ Rad2Deg(latCell[c]) < LatBnds1(iLat)]

CountNonzero(mask) == Cardinality({c \in DOMAIN mask : mask[c]})

\* The sum over a selection of no cells, on the Time axis of w.
ZeroFlux(w) == Array([t \in DOMAIN w |-> Array([j \in Interfaces |-> 0])])

\* lines 679-680: (vertVelocityTop[:, mask, :] * areaCell[mask]).sum('nCells'),
\* with w for vertVelocityTop, dims (Time, nCells, nVertLevelsP1).
BinFlux(w, mask) ==
    IF CountNonzero(mask) = 0 THEN ZeroFlux(w)
    ELSE [t \in DOMAIN w |-> [j \in Interfaces |->
             SeqSum([c \in Cells |->
                 IF mask[c] THEN w[t][c][j] * areaCell[c]
                 ELSE 0])]]

\* lines 675-681: the body of "for iLat in range(lat_bnds.sizes['lat'])" on
\* the lists mocSlices and binCounts so far.
LatLoopBody(w, cellMask, st, iLat) ==
    LET mask == BinMask(cellMask, iLat)
        flux == BinFlux(w, mask)
        mocTop == Array([t \in DOMAIN w |-> Array([j \in Interfaces |->
                      st.mocSlices[iLat + 1][t][j] + flux[t][j]])])
    IN [mocSlices |-> Append(st.mocSlices, mocTop),
        binCounts |-> Append(st.binCounts, CountNonzero(mask))]

\* lines 674-681: the iterations lo, lo + 1, ..., hi - 1 of the loop, in
\* this order.  The range is halved, and the first half is evaluated before
\* the second starts (iteration mid begins with len(binCounts) = mid), to
\* keep the evaluation shallow.
RECURSIVE LatLoop(_, _, _, _, _)
LatLoop(w, cellMask, st, lo, hi) ==
    IF hi <= lo THEN st
    ELSE IF hi = lo + 1 THEN LatLoopBody(w, cellMask, st, lo)
    ELSE LET mid == (lo + hi) \div 2
             first == LatLoop(w, cellMask, st, lo, mid)
         IN IF Len(first.binCounts) = mid /\ Len(first.mocSlices) = mid + 1
            THEN LatLoop(w, cellMask, first, mid, hi)
            ELSE first

\* lines 683-688: concat along lat, transpose, and the sum of the four
\* corners; the factor 0.25 is left out (the values are 4 * moc).
CornerAverage4(slices) ==
    [t \in DOMAIN slices[1] |-> [k \in Levels |-> [i \in 1..NLat |->
        slices[i][t][k] + slices[i + 1][t][k]
        + slices[i][t][k + 1] + slices[i + 1][t][k + 1]]]]

\* A variant of lines 689-690 that masks nothing.
WhereBinCountsNoMask(moc, counts) ==
    [t \in DOMAIN moc |-> [k \in Levels |-> [i \in 1..NLat |->
        IF counts[i] >= 0 THEN Num(moc[t][k][i]) ELSE NaN]]]

\* lines 689-690: moc.where(binCounts > 0)
WhereBinCounts(moc, counts) ==
    [t \in DOMAIN moc |-> [k \in Levels |-> [i \in 1..NLat |->
        IF counts[i] > 0 THEN Num(moc[t][k][i]) ELSE NaN]]]

\* lines 669-690: the body of the loop over the basins after mocSlice is
\* set, for a basin's cell mask, with w for vertVelocityTop.
BasinMocFrom(w, mocSlice, cellMask) ==
    LET loop == LatLoop(w, cellMask,
                        [mocSlices |-> <<mocSlice>>, binCounts |-> <<>>],
                        0, NLat)
    IN [mocSlices |-> loop.mocSlices,
        binCounts |-> loop.binCounts,
        moc |-> WhereBinCounts(CornerAverage4(loop.mocSlices),
                               loop.binCounts)]

\* lines 666-690: the body of the loop over the basins, for a basin's
\* transport and cell mask.
BasinMoc(tr, cellMask) ==
    BasinMocFrom(totalVertVelocityTop, MocSliceOf(tr), cellMask)

\* The inputs: every combination of the given choices.
MocInputs(lats, levels, masks, names, transects) ==
    /\ latCell \in lats
    /\ maxLevelCell \in levels
    /\ regionCellMasks \in masks
    /\ regionNamesIn \in names
    /\ transectEdgeGlobalIDs \in transects
    /\ areaCell = MocAreaCell

MocStartState ==
    /\ mpc = "start"
    /\ regionNames = <<>>
    /\ regionIndex = 0
    /\ transport = <<>>
    /\ cellMasks = <<>>
    /\ namePos = 0
    /\ mocSlices = <<>>
    /\ binCounts = <<>>
    /\ mocs = <<>>
    /\ mocsOut = <<>>
    /\ regionNamesCoord = <<>>

MocFrame == UNCHANGED <<remapVars, verticesOnCell, cellsOnVertex,
                        kiteAreasOnVertex, areaCell, varOnVertices, ipc,
                        iVertex, weights, weightsDen, varOnCells, mocInputs,
                        utilVars>>

\* lines 614-641: the names, and the Global entries of the two dicts.
MocSetup ==
    /\ MocFrame
    /\ mpc = "start"
    /\ regionNames' = <<"Global">> \o regionNamesIn
    /\ transport' = <<[key |-> "Global",
                       val |-> [t \in Times |-> [k \in Levels |-> 0]]]>>
    /\ cellMasks' = <<[key |-> "Global", val |-> [c \in Cells |-> 1]]>>
    /\ regionIndex' = 1
    /\ mpc' = IF 1 < 1 + NRegions THEN "transport" ELSE "moc"
    /\ namePos' = 1
    /\ UNCHANGED <<mocSlices, binCounts, mocs, mocsOut, regionNamesCoord>>

\* lines 643-661: one iteration of "for regionIndex in range(1, nRegions)".
TransportStep ==
    /\ MocFrame
    /\ mpc = "transport"
    /\ LET regionName == regionNames[regionIndex + 1]
       IN /\ transport' = DictSet(transport, regionName,
                                  RegionTransport(regionIndex))
          /\ cellMasks' = DictSet(cellMasks, regionName,
                                  regionCellMasks[regionIndex])
    /\ regionIndex' = regionIndex + 1
    /\ mpc' = IF regionIndex + 1 < 1 + NRegions THEN "transport" ELSE "moc"
    /\ UNCHANGED <<regionNames, namePos, mocSlices, binCounts, mocs, mocsOut,
                   regionNamesCoord>>

\* lines 665-694: one iteration of "for regionName in regionNames".
MocStep ==
    /\ MocFrame
    /\ mpc = "moc"
    /\ LET regionName == regionNames[namePos]
           basin == BasinMoc(DictGet(transport, regionName),
                             DictGet(cellMasks, regionName))
       IN /\ mocSlices' = basin.mocSlices
          /\ binCounts' = basin.binCounts
          /\ mocs' = DictSet(mocs, regionName, basin.moc)
    /\ namePos' = namePos + 1
    /\ mpc' = IF namePos < Len(regionNames) THEN "moc" ELSE "concat"
    /\ UNCHANGED <<regionNames, regionIndex, transport, cellMasks, mocsOut,
                   regionNamesCoord>>

\* lines 696-704: the basins stacked in the order of the dict's values, and
\* the coordinate of the names.
MocConcat ==
    /\ MocFrame
    /\ mpc = "concat"
    /\ mocsOut' = DictValues(mocs)
    /\ regionNamesCoord' = regionNames
    /\ mpc' = "done"
    /\ UNCHANGED <<regionNames, regionIndex, transport, cellMasks, namePos,
                   mocSlices, binCounts, mocs>>

MocNext == MocSetup \/ TransportStep \/ MocStep \/ MocConcat

\* ---- the inputs each specification draws
\* Latitudes: the south pole, the equator, the last bin's lower bound, and
\* the north pole.
LatSamples == {-90, 0, 89, 90}
RegionNameSet == {"Global", "Atlantic", "IndoPacific"}

\* Region r holds the cells up to r.
DefaultMasks == [r \in Regions |-> [c \in Cells |-> IF c <= r THEN 1 ELSE 0]]
\* or the cells from r on.
UpperMasks == [r \in Regions |-> [c \in Cells |-> IF c >= r THEN 1 ELSE 0]]
DefaultLats == [c \in Cells |-> IF c = 1 THEN -90 ELSE 0]
\* every cell on the equator
EquatorLats == [c \in Cells |-> 0]
DefaultLevels == [c \in Cells |-> NVertLevels]
NamePool == <<"Atlantic", "IndoPacific", "Arctic", "Southern", "Indian",
              "Pacific">>
DefaultNames == [r \in Regions |-> NamePool[r]]
\* Region r's transect is edge r (the last region: the boundary edge),
\* then padding.
DefaultTransects == [r \in Regions |->
                        PadTo(<<((r - 1) % NEdges) + 1>>, maxEdgesInTransect)]

\* Every region's transect is every edge.
AllEdgeTransects == [r \in Regions |-> [i \in 1..maxEdgesInTransect |-> i]]

\* Transects: nothing but padding (zeros, or -1), one edge with the padding
\* after it or zeros before it, and every edge.
TransectMenu ==
    {[i \in 1..maxEdgesInTransect |-> 0], [i \in 1..maxEdgesInTransect |-> -1],
     [i \in 1..maxEdgesInTransect |-> i]}
    \cup {[i \in 1..maxEdgesInTransect |-> IF i = 1 THEN e ELSE -1] : e \in Edges}
    \cup {[i \in 1..maxEdgesInTransect |->
             IF i = maxEdgesInTransect THEN e ELSE 0] : e \in Edges}

\* _compute_moc_time_series is not running.
MocNotRunning ==
    /\ mpc = "idle"
    /\ regionNames = <<>>
    /\ regionIndex = 0
    /\ transport = <<>>
    /\ cellMasks = <<>>
    /\ namePos = 0
    /\ mocSlices = <<>>
    /\ binCounts = <<>>
    /\ mocs = <<>>
    /\ mocsOut = <<>>
    /\ regionNamesCoord = <<>>

MocIdleNoLevels ==
    /\ latCell = <<>>
    /\ regionCellMasks = <<>>
    /\ regionNamesIn = <<>>
    /\ transectEdgeGlobalIDs = <<>>
    /\ MocNotRunning

MocIdle == MocIdleNoLevels /\ maxLevelCell = <<>>

(***************************************************************************)
(* Properties of the MOC time series                                       *)
(***************************************************************************)

\* The basin whose MocStep ran last, and the position of region r's basin.
LastBasin == regionNames[namePos - 1]
MocStepRan == mocSlices # <<>>
MocJustDone(r) == MocStepRan /\ namePos = r + 2
TransportDone(r) == regionIndex > r

\* Cell c lies in bin iLat (0-based): lower bound included, upper excluded.
InBin(c, iLat) ==
    /\ Rad2Deg(latCell[c]) >= LatBnds0(iLat)
    /\ Rad2Deg(latCell[c]) < LatBnds1(iLat)

\* vertVelocityTop[t, cell, j] * areaCell[cell]
CellFlux(c, t, j) == totalVertVelocityTop[t][c][j] * areaCell[c]

\* The sum of CellFlux over all the member cells of a mask.
FluxOfMembers(cellMask, t, j) ==
    SeqSum([c \in Cells |->
        IF cellMask[c] = 1 THEN CellFlux(c, t, j) ELSE 0])

\* The sum of CellFlux over the member cells of a mask in bin iLat.
FluxInBin(cellMask, iLat, t, j) ==
    SeqSum([c \in Cells |->
        IF cellMask[c] = 1 /\ InBin(c, iLat) THEN CellFlux(c, t, j) ELSE 0])

\* The number of member cells of a mask in bin iLat.
MemberBinCount(cellMask, iLat) ==
    Cardinality({c \in Cells : cellMask[c] = 1 /\ InBin(c, iLat)})

\* C4: conservation of the latitude accumulation.  For the basin just
\* accumulated, every member cell (its latitude lies in [-90, 90]) is counted
\* in exactly one bin, the running sum over all the bins is the sum of
\* vertVelocityTop * areaCell over all the member cells, and the value after
\* bin i is the value after bin i - 1 plus the contribution of bin i's cells.
C4_LatitudeAccumulationConserves ==
    MocStepRan =>
        LET cellMask == DictGet(cellMasks, LastBasin)
        IN /\ \A c \in Cells :
                 cellMask[c] = 1 =>
                     Cardinality({i \in 0..(NLat - 1) : InBin(c, i)}) = 1
           /\ \A i \in 1..NLat :
                 binCounts[i] = MemberBinCount(cellMask, i - 1)
           /\ \A t \in Times, j \in Interfaces :
                 /\ mocSlices[NLat + 1][t][j] - mocSlices[1][t][j]
                        = FluxOfMembers(cellMask, t, j)
                 /\ \A i \in 1..NLat :
                       mocSlices[i + 1][t][j] = mocSlices[i][t][j]
                           + FluxInBin(cellMask, i - 1, t, j)

\* C5: empty bins are undefined.  In the result, the streamfunction of a
\* basin at a latitude bin is NaN at every depth and time when no member cell
\* of the basin lies in the bin, and a defined value at every depth and time
\* when at least one does.
C5_EmptyBinsAreNaN ==
    mpc = "done" =>
        \A b \in 1..Len(mocsOut) : \A i \in 1..NLat :
            LET empty == MemberBinCount(
                             DictGet(cellMasks, regionNamesCoord[b]), i - 1) = 0
            IN \A t \in Times, k \in Levels :
                   mocsOut[b][t][k][i].nan <=> empty

\* A finished run in which a basin has an empty bin and a bin with cells.
C5_Witness ==
    /\ mpc = "done"
    /\ \E b \in 1..Len(mocsOut) :
          /\ \E i \in 1..NLat : mocsOut[b][1][1][i].nan
          /\ \E i \in 1..NLat : ~mocsOut[b][1][1][i].nan

\* C6: the surface boundary.  For the basin just accumulated, mocAtInterface
\* has nVertLevels + 1 interfaces, is 0 at interface 0 at every time, is at
\* interface j + 1 its value at interface j plus the transport at level j
\* (the cumulative sum), and is the array the first latitude bin adds to.
C6_SeedIsCumulativeTransport ==
    MocStepRan =>
        LET tr == DictGet(transport, LastBasin)
            cellMask == DictGet(cellMasks, LastBasin)
        IN \A t \in Times :
               /\ Len(mocSlices[1][t]) = NVertLevels + 1
               /\ mocSlices[1][t][1] = 0
               /\ \A j \in Levels :
                     mocSlices[1][t][j + 1] = mocSlices[1][t][j] + tr[t][j]
               /\ \A j \in Interfaces :
                     mocSlices[2][t][j] = mocSlices[1][t][j]
                         + FluxInBin(cellMask, 0, t, j)

\* A basin with non-zero transport at the two upper levels and a non-zero
\* seed at the bottom interface.
C6_Witness ==
    /\ MocStepRan
    /\ \E t \in Times :
          /\ DictGet(transport, LastBasin)[t][1] # 0
          /\ DictGet(transport, LastBasin)[t][2] # 0
          /\ mocSlices[1][t][NVertLevels + 1] # 0

\* C7: basin ordering.  With n named regions the result has n + 1 basins and
\* n + 1 names, entry 0 is the Global basin, entry r is the streamfunction of
\* the r-th named region in input order, and the names are in the same order.
C7_BasinsInInputOrder ==
    mpc = "done" =>
        /\ Len(mocsOut) = NRegions + 1
        /\ Len(regionNamesCoord) = NRegions + 1
        /\ regionNamesCoord[1] = "Global"
        /\ \A r \in Regions : regionNamesCoord[r + 1] = regionNamesIn[r]
        /\ mocsOut[1] = BasinMoc([t \in Times |-> [k \in Levels |-> 0]],
                                 [c \in Cells |-> 1]).moc
        /\ \A r \in Regions :
              mocsOut[r + 1] = BasinMoc(RegionTransport(r),
                                        regionCellMasks[r]).moc

\* C8: the Global region.  Its transport is zero at every time and level,
\* its cell mask holds exactly the cells with maxLevelCell > 0, and its bin
\* counts count those cells only.
C8_GlobalMaskIsCellMask2D ==
    mpc # "start" =>
        /\ \A t \in Times, k \in Levels :
              DictGet(transport, "Global")[t][k] = 0
        /\ \A c \in Cells :
              DictGet(cellMasks, "Global")[c] = 1 <=> maxLevelCell[c] > 0
        /\ (MocStepRan /\ namePos = 2) =>
              \A i \in 1..NLat :
                  binCounts[i] = Cardinality({c \in Cells :
                                     maxLevelCell[c] > 0 /\ InBin(c, i - 1)})

\* Region r's transect has no entry > 0.
NoEdges(r) ==
    \A i \in 1..maxEdgesInTransect : transectEdgeGlobalIDs[r][i] <= 0

\* The centre value (times 4) of an interface array at level k.
CentreOf4(slice, t, k) == 2 * (slice[t][k] + slice[t][k + 1])

\* C9 as stated: a region without transect edges has zero transport, and its
\* streamfunction is its southern-boundary seed at every depth, in every bin
\* where it is defined.
C9_StreamfunctionEqualsSeed ==
    \A r \in Regions :
        NoEdges(r) =>
            /\ TransportDone(r) =>
                  \A t \in Times, k \in Levels :
                      DictGet(transport, regionNames[r + 1])[t][k] = 0
            /\ MocJustDone(r) =>
                  \A t \in Times, k \in Levels, i \in 1..NLat :
                      LET m == DictGet(mocs, LastBasin)[t][k][i]
                      IN ~m.nan => m.v = CentreOf4(mocSlices[1], t, k)

\* The flux of the member cells south of the lower bound of bin iLat.
FluxSouthOf(cellMask, iLat, t, j) ==
    SeqSum([c \in Cells |->
        IF /\ cellMask[c] = 1
           /\ Rad2Deg(latCell[c]) >= LatMin
           /\ Rad2Deg(latCell[c]) < LatBnds0(iLat)
        THEN CellFlux(c, t, j) ELSE 0])

\* C9: a region without transect edges.  The region is computed like any
\* other: its transport is zero at every time and level, the southern-boundary
\* seed of its streamfunction is zero at every interface, and its
\* streamfunction is the latitude accumulation of its member cells' vertical
\* flux alone (NaN in the bins without member cells).
C9_NoEdgesZeroSeed ==
    \A r \in Regions :
        NoEdges(r) =>
            /\ TransportDone(r) =>
                  /\ DictHas(transport, regionNames[r + 1])
                  /\ \A t \in Times, k \in Levels :
                        DictGet(transport, regionNames[r + 1])[t][k] = 0
            /\ MocJustDone(r) =>
                  LET cellMask == DictGet(cellMasks, LastBasin)
                      moc == DictGet(mocs, LastBasin)
                  IN /\ \A t \in Times, j \in Interfaces :
                            mocSlices[1][t][j] = 0
                     /\ \A i \in 1..NLat :
                           IF MemberBinCount(cellMask, i - 1) = 0
                           THEN \A t \in Times, k \in Levels :
                                    moc[t][k][i].nan
                           ELSE \A t \in Times, k \in Levels :
                                    moc[t][k][i] =
                                        Num(FluxSouthOf(cellMask, i - 1, t, k)
                                            + FluxSouthOf(cellMask, i, t, k)
                                            + FluxSouthOf(cellMask, i - 1, t, k + 1)
                                            + FluxSouthOf(cellMask, i, t, k + 1))

\* A region without transect edges whose streamfunction is defined and not
\* zero somewhere.
C9_Witness ==
    \E r \in Regions :
        /\ NoEdges(r)
        /\ MocJustDone(r)
        /\ \E t \in Times, k \in Levels, i \in 1..NLat :
              /\ ~DictGet(mocs, LastBasin)[t][k][i].nan
              /\ DictGet(mocs, LastBasin)[t][k][i].v # 0

\* Every edge region r's transect selects has two adjacent cells.
InteriorTransect(r) ==
    \A i \in 1..maxEdgesInTransect :
        LET id == transectEdgeGlobalIDs[r][i]
        IN id > 0 => cellsOnEdge[id][1] > 0 /\ cellsOnEdge[id][2] > 0

\* sign(e) * v(t,e,k) * h(t,e,k) * dvEdge(e) for the 1-based edge id.
EdgeTransport(r, id, t, k) ==
    transectEdgeMaskSigns[r][id]
    * (normalVelocity[t][id][k] + normalGMBolusVelocity[t][id][k])
    * Half(layerThickness[t][cellsOnEdge[id][1]][k]
           + layerThickness[t][cellsOnEdge[id][2]][k])
    * dvEdge[id]

AdjacentCells(r) ==
    {c \in Cells :
        \E i \in 1..maxEdgesInTransect :
            LET id == transectEdgeGlobalIDs[r][i]
            IN id > 0 /\ (cellsOnEdge[id][1] = c \/ cellsOnEdge[id][2] = c)}

\* layerThickness with other data in cell c.
ThicknessElsewhere(c) ==
    [t \in Times |-> [d \in Cells |-> [k \in Levels |->
        IF d = c THEN layerThickness[t][d][k] + 2
        ELSE layerThickness[t][d][k]]]]

\* C19: sentinel-masked connectivity.  The -1 that cellsOnEdge - 1 makes of
\* the 0 "no neighbor" sentinel never selects data: the transport of a region
\* depends on the layer thickness of no cell other than those adjacent to its
\* selected edges, so an edge with a missing neighbor never picks up the data
\* of the last cell of the mesh.
C19_SentinelMaskedConnectivity ==
    \A r \in Regions :
        TransportDone(r) =>
            \A c \in Cells \ AdjacentCells(r) :
                DictGet(transport, regionNames[r + 1]) =
                    RegionTransportOver(r,
                        LayerThicknessEdgeOf(ThicknessElsewhere(c)))

DigitChars == <<"0", "1", "2", "3", "4", "5", "6", "7", "8", "9">>
IsDigit(c) == \E i \in 1..10 : DigitChars[i] = c
DigitVal(c) == (CHOOSE i \in 1..10 : DigitChars[i] = c) - 1

\* c in s
Contains(s, c) == \E i \in 1..Len(s) : s[i] = c

\* s.replace(a, b) for single characters
Replace(s, a, b) == [i \in 1..Len(s) |-> IF s[i] = a THEN b ELSE s[i]]

\* s.strip(): the blanks at both ends removed
RECURSIVE LStrip(_)
LStrip(s) == IF s # <<>> /\ Head(s) = " " THEN LStrip(Tail(s)) ELSE s
RECURSIVE RStrip(_)
RStrip(s) ==
    IF s # <<>> /\ s[Len(s)] = " " THEN RStrip(SubSeq(s, 1, Len(s) - 1))
    ELSE s
Strip(s) == RStrip(LStrip(s))

\* s.split(sep): the pieces between the occurrences of sep, empty ones kept
RECURSIVE Split(_, _)
Split(s, sep) ==
    IF ~Contains(s, sep) THEN <<s>>
    ELSE LET i == CHOOSE j \in 1..Len(s) :
                      s[j] = sep /\ \A k \in 1..(j - 1) : s[k] # sep
         IN <<SubSeq(s, 1, i - 1)>> \o Split(SubSeq(s, i + 1, Len(s)), sep)

\* int(sub) succeeds on an optional sign followed by digits (the fields here
\* never hold blanks or underscores).
IsInt(f) ==
    LET body == IF f # <<>> /\ Head(f) \in {"-", "+"} THEN Tail(f) ELSE f
    IN body # <<>> /\ \A i \in 1..Len(body) : IsDigit(body[i])

RECURSIVE DigitsVal(_)
DigitsVal(ds) ==
    IF ds = <<>> THEN 0
    ELSE 10 * DigitsVal(SubSeq(ds, 1, Len(ds) - 1)) + DigitVal(ds[Len(ds)])

IntOf(f) ==
    IF Head(f) = "-" THEN 0 - DigitsVal(Tail(f))
    ELSE IF Head(f) = "+" THEN DigitsVal(Tail(f))
    ELSE DigitsVal(f)

ValueError == [err |-> "ValueError", val |-> <<>>]
Returned(v) == [err |-> "none", val |-> v]

\* lines 521-533: dateString to the pair (ymd, hms); the unpacking of the
\* split at the blank raises unless there are exactly two pieces.
SplitDateTime(s) ==
    LET ds == Strip(Replace(s, "_", " "))
    IN IF Contains(ds, " ")
       THEN LET parts == Split(ds, " ")
            IN IF Len(parts) = 2
               THEN [err |-> "none", ymd |-> parts[1], hms |-> parts[2]]
               ELSE [err |-> "ValueError", ymd |-> <<>>, hms |-> <<>>]
       ELSE IF Contains(ds, "-")
            THEN [err |-> "none",
                  ymd |-> IF Len(Split(ds, "-")) = 2
                          THEN ds \o <<"-", "0", "1">> ELSE ds,
                  hms |-> <<"0", "0", ":", "0", "0", ":", "0", "0">>]
            ELSE [err |-> "none",
                  ymd |-> <<"0", "0", "0", "1", "-", "0", "1", "-", "0", "1">>,
                  hms |-> ds]

\* lines 538-544: the fields of ymd as integers
ParseYmd(ymd) ==
    IF Contains(ymd, "-")
    THEN LET subs == Split(ymd, "-")
         IN IF Len(subs) = 3 /\ \A i \in 1..3 : IsInt(subs[i])
            THEN Returned(<<IntOf(subs[1]), IntOf(subs[2]), IntOf(subs[3])>>)
            ELSE ValueError
    ELSE IF IsInt(ymd) THEN Returned(<<0, 1, IntOf(ymd)>>) ELSE ValueError

\* A variant of lines 546-553 without lines 535-536: the '.' stays.
ParseHmsNoDot(hms0) ==
    LET hms == hms0 IN
    IF Contains(hms, ":")
    THEN LET subs == Split(hms, ":")
         IN IF Len(subs) = 3 /\ \A i \in 1..3 : IsInt(subs[i])
            THEN Returned(<<IntOf(subs[1]), IntOf(subs[2]), IntOf(subs[3])>>)
            ELSE ValueError
    ELSE IF IsInt(hms) THEN Returned(<<0, 0, IntOf(hms)>>) ELSE ValueError

\* lines 535-536 and 546-553: the fields of hms as integers
ParseHms(hms0) ==
    LET hms == IF Contains(hms0, ".") THEN Replace(hms0, ".", ":") ELSE hms0
    IN IF Contains(hms, ":")
       THEN LET subs == Split(hms, ":")
            IN IF Len(subs) = 3 /\ \A i \in 1..3 : IsInt(subs[i])
               THEN Returned(<<IntOf(subs[1]), IntOf(subs[2]), IntOf(subs[3])>>)
               ELSE ValueError
       ELSE IF IsInt(hms) THEN Returned(<<0, 0, IntOf(hms)>>) ELSE ValueError

\* lines 513-554
ParseDateStringOf(s) ==
    LET dt == SplitDateTime(s)
    IN IF dt.err # "none" THEN ValueError
       ELSE LET d == ParseYmd(dt.ymd)
                h == ParseHms(dt.hms)
            IN IF d.err # "none" \/ h.err # "none" THEN ValueError
               ELSE Returned(d.val \o h.val)

\* ---- the strings given to the parser
MaxLen == 3
RawAlphabet == {"1", "5", "-", ":", " ", "_", "x"}
RawStrings == UNION {[1..n -> RawAlphabet] : n \in 0..MaxLen}

\* n written with at least w digits
RECURSIVE Digits(_)
Digits(n) == IF n < 10 THEN <<DigitChars[n + 1]>>
             ELSE Digits(n \div 10) \o <<DigitChars[(n % 10) + 1]>>
Pad(n, w) == LET d == Digits(n)
             IN [i \in 1..(w - Len(d)) |-> "0"] \o d

\* "YYYY-MM-DD", "YYYY-MM" and "YYYY-MM-DD<sep>HH<c>MM<c>SS"
FormatYmd(y, m, d) == Pad(y, 4) \o <<"-">> \o Pad(m, 2) \o <<"-">> \o Pad(d, 2)
FormatYm(y, m) == Pad(y, 4) \o <<"-">> \o Pad(m, 2)
FormatFull(y, m, d, sep, h, mi, sc, c) ==
    FormatYmd(y, m, d) \o <<sep>> \o Pad(h, 2) \o <<c>> \o Pad(mi, 2)
        \o <<c>> \o Pad(sc, 2)

Years == {1990, 2001}
Months == {1, 3}
Days == {5, 28}
ClockTimes == {<<0, 0, 0>>, <<12, 30, 59>>}
WrittenStrings ==
    {FormatYmd(y, m, d) : y \in Years, m \in Months, d \in Days}
    \cup {FormatYm(y, m) : y \in Years, m \in Months}
    \cup UNION {{FormatFull(y, m, d, sep, ct[1], ct[2], ct[3], c) :
                    y \in Years, m \in Months, d \in Days, ct \in ClockTimes} :
                sep \in {"_", " "}, c \in {":", "."}}

DateInit ==
    /\ dateString \in RawStrings \cup WrittenStrings
    /\ ppc = "start"
    /\ parsed = [err |-> "none", val |-> <<>>]

DateIdle ==
    /\ dateString = <<>>
    /\ ppc = "idle"
    /\ parsed = [err |-> "none", val |-> <<>>]

\* lines 513-554: the call returns the tuple or raises.
ParseDateString ==
    /\ UNCHANGED <<remapVars, interpVars, mocVars, timeVars, meshVars,
                   normVars, handleVars, chunkVars, floorVars>>
    /\ ppc = "start"
    /\ parsed' = ParseDateStringOf(dateString)
    /\ ppc' = IF ParseDateStringOf(dateString).err = "none" THEN "returned"
              ELSE "raised"
    /\ UNCHANGED dateString

DateNext == ParseDateString

\* A parse has finished.
ParseFinished == ppc \in {"returned", "raised"}

\* A bare integer: one or more digits and nothing else.
BareInteger(s) == s # <<>> /\ \A i \in 1..Len(s) : IsDigit(s[i])

\* C11: a token without blank, underscore and '-' that is a bare integer n
\* parses as a day count: (year 0, month 1, day n, 0, 0, 0).
C11_BareIntegerIsDayCount ==
    (ParseFinished /\ BareInteger(dateString)) =>
        parsed = Returned(<<0, 1, DigitsVal(dateString), 0, 0, 0>>)

\* C12: the written formats.  "YYYY-MM-DD<sep>HH:MM:SS" with an underscore
\* or a blank as <sep> and ':' or '.' between the time fields, "YYYY-MM-DD"
\* and "YYYY-MM" parse to the integers written, with day 1 when only year and
\* month are given and time 00:00:00 when no time part is given.
C12_WrittenFormatsParse ==
    ParseFinished =>
        \A y \in Years, m \in Months :
            /\ dateString = FormatYm(y, m) =>
                  parsed = Returned(<<y, m, 1, 0, 0, 0>>)
            /\ \A d \in Days :
                  /\ dateString = FormatYmd(y, m, d) =>
                        parsed = Returned(<<y, m, d, 0, 0, 0>>)
                  /\ \A ct \in ClockTimes, sep \in {"_", " "}, c \in {":", "."} :
                        dateString = FormatFull(y, m, d, sep, ct[1], ct[2],
                                                ct[3], c) =>
                            parsed = Returned(<<y, m, d, ct[1], ct[2], ct[3]>>)

\* "2001-03-05_12.30.59" has been parsed to (2001, 3, 5, 12, 30, 59).
C12_Witness ==
    /\ ppc = "returned"
    /\ dateString = FormatFull(2001, 3, 5, "_", 12, 30, 59, ".")
    /\ parsed.val = <<2001, 3, 5, 12, 30, 59>>

\* The strings outside the date grammar: a character that belongs to no
\* numeric field and is no separator, more than one blank or underscore
\* between the ends, a time part with ':' and other than three fields, a date
\* part with '-' and other than three fields (two where no time part follows).
NonNumericChar(s) ==
    \E i \in 1..Len(s) :
        ~IsDigit(s[i]) /\ s[i] \notin {"-", ":", ".", " ", "_"}
Normalized(s) == Strip(Replace(s, "_", " "))
SeparatorCount(s) ==
    Cardinality({i \in 1..Len(Normalized(s)) : Normalized(s)[i] = " "})
TimePartOf(s) ==
    LET n == Normalized(s)
    IN IF Contains(n, " ") THEN Split(n, " ")[2]
       ELSE IF Contains(n, "-") THEN <<>> ELSE n
DatePartOf(s) ==
    LET n == Normalized(s)
    IN IF Contains(n, " ") THEN Split(n, " ")[1]
       ELSE IF Contains(n, "-") THEN n ELSE <<>>
OutsideGrammar(s) ==
    \/ NonNumericChar(s)
    \/ SeparatorCount(s) > 1
    \/ /\ SeparatorCount(s) <= 1
       /\ \/ /\ Contains(TimePartOf(s), ":")
             /\ Len(Split(TimePartOf(s), ":")) # 3
          \/ /\ Contains(DatePartOf(s), "-")
             /\ Len(Split(DatePartOf(s), "-")) # 3
             /\ ~(SeparatorCount(s) = 0 /\ Len(Split(DatePartOf(s), "-")) = 2)

\* C14: every string outside the date grammar makes the parser fail with
\* InvalidDateStringError, and none yields a tuple.
C14_InvalidDateStringError ==
    (ParseFinished /\ OutsideGrammar(dateString)) =>
        /\ ppc = "raised"
        /\ parsed.err = "InvalidDateStringError"
        /\ parsed.val = <<>>

(***************************************************************************)
(* add_time (mpas.py 79-114), _string_to_days_since_date (489-500),        *)
(* _string_to_datetime (503-510), _datetime_to_days (557-566)              *)
(***************************************************************************)

\* Days are held in units of 1/172800 day (half seconds), so that days with
\* a time of day and the 0.5 * (daysStart + daysEnd) are integers.
DayUnit == 172800
SecondUnit == DayUnit \div 86400

\* The lengths of the months of the 365-day calendar.
MonthLengths == <<31, 28, 31, 30, 31, 30, 31, 31, 30, 31, 30, 31>>

\* lines 509-510: datetime(...) raises ValueError on a field out of range.
\* (The timestamps drawn hold no 29 February.)
DatetimeOf(p) ==
    IF p.err # "none" THEN ValueError
    ELSE LET v == p.val
         IN IF /\ v[1] \in 1..9999
               /\ v[2] \in 1..12
               /\ v[3] >= 1
               /\ v[3] <= MonthLengths[v[2]]
               /\ v[4] \in 0..23
               /\ v[5] \in 0..59
               /\ v[6] \in 0..59
            THEN Returned(v) ELSE ValueError

\* The days, in DayUnit, from 0001-01-01 00:00:00 to the date v in the
\* 365-day calendar.
NoLeapDays(v) ==
    DayUnit * (365 * (v[1] - 1)
               + SeqSum(SubSeq(MonthLengths, 1, v[2] - 1))
               + (v[3] - 1))
    + SecondUnit * (3600 * v[4] + 60 * v[5] + v[6])

\* lines 563-564: date2num(dates, 'days since <referenceDate>', 'noleap')
Date2Num(v, referenceDate) == NoLeapDays(v) - NoLeapDays(referenceDate)

\* lines 489-500 for one string: [err, val], val the days in DayUnit.
StringToDays(s, referenceDate) ==
    LET d == DatetimeOf(ParseDateStringOf(s))
    IN IF d.err # "none" THEN ValueError
       ELSE Returned(Date2Num(d.val, referenceDate))

\* line 94: '{}_00:00:00'.format(xtime[0:10])
FixStart(xtime) ==
    SubSeq(xtime, 1, IF Len(xtime) < 10 THEN Len(xtime) ELSE 10)
        \o <<"_", "0", "0", ":", "0", "0", ":", "0", "0">>

\* A variant of lines 96-102 that adds the offset to daysStart only.
AddTimeOfOffsetStartOnly(xStart, xEnd, referenceDate, offset) ==
    LET starts == [i \in 1..Len(xStart) |->
                      StringToDays(FixStart(xStart[i]), referenceDate)]
        ends == [i \in 1..Len(xEnd) |-> StringToDays(xEnd[i], referenceDate)]
    IN IF \E i \in 1..Len(xStart) : starts[i].err # "none" \/ ends[i].err # "none"
       THEN [err |-> "ValueError", time |-> <<>>, time_bnds |-> <<>>]
       ELSE LET daysStart == [i \in 1..Len(xStart) |->
                                 offset * 365 * DayUnit + starts[i].val]
                daysEnd == [i \in 1..Len(xEnd) |-> ends[i].val]
            IN [err |-> "none",
                time |-> [i \in 1..Len(xStart) |->
                             Half(daysStart[i] + daysEnd[i])],
                time_bnds |-> [i \in 1..Len(xStart) |->
                                  <<daysStart[i], daysEnd[i]>>]]

\* lines 94-112: the time axis and its bounds, or the exception of a
\* timestamp that does not parse to a date.
AddTimeOf(xStart, xEnd, referenceDate, offset) ==
    LET starts == [i \in 1..Len(xStart) |->
                      StringToDays(FixStart(xStart[i]), referenceDate)]
        ends == [i \in 1..Len(xEnd) |-> StringToDays(xEnd[i], referenceDate)]
    IN IF \E i \in 1..Len(xStart) : starts[i].err # "none" \/ ends[i].err # "none"
       THEN [err |-> "ValueError", time |-> <<>>, time_bnds |-> <<>>]
       ELSE LET daysStart == [i \in 1..Len(xStart) |->
                                 offset * 365 * DayUnit + starts[i].val]
                daysEnd == [i \in 1..Len(xEnd) |->
                               offset * 365 * DayUnit + ends[i].val]
            IN [err |-> "none",
                time |-> [i \in 1..Len(xStart) |->
                             Half(daysStart[i] + daysEnd[i])],
                time_bnds |-> [i \in 1..Len(xStart) |->
                                  <<daysStart[i], daysEnd[i]>>]]

\* ---- the timestamps of a monthly time series (early years: the days in
\* DayUnit stay within TLC's integers)
StartStamps == {<<1, 1, 1, 0, 0, 0>>, <<1, 1, 1, 0, 30, 0>>,
                <<9, 3, 5, 12, 30, 59>>}
EndStamps == {<<1, 2, 1, 0, 0, 0>>, <<9, 3, 5, 12, 30, 59>>,
              <<9, 13, 1, 0, 0, 0>>}
StampString(v) == FormatFull(v[1], v[2], v[3], "_", v[4], v[5], v[6], ":")
DefaultReferenceDate == <<1, 1, 1, 0, 0, 0>>
OffsetYearsSet == {0, 1}

TimeInit ==
    /\ xtimeStart \in [Times -> {StampString(v) : v \in StartStamps}]
    /\ xtimeEnd \in [Times -> {StampString(v) : v \in EndStamps}]
    /\ offsetYears \in OffsetYearsSet
    /\ tpc = "start"
    /\ timeOut = [err |-> "none", time |-> <<>>, time_bnds |-> <<>>]

TimeIdle ==
    /\ xtimeStart = <<>>
    /\ xtimeEnd = <<>>
    /\ offsetYears = 0
    /\ tpc = "idle"
    /\ timeOut = [err |-> "none", time |-> <<>>, time_bnds |-> <<>>]

\* lines 79-114: add_time returns the data set with the axis, or raises.
AddTime ==
    /\ UNCHANGED <<remapVars, interpVars, mocVars, dateVars, meshVars,
                   normVars, handleVars, chunkVars, floorVars>>
    /\ tpc = "start"
    /\ timeOut' = AddTimeOf(xtimeStart, xtimeEnd, DefaultReferenceDate,
                            offsetYears)
    /\ tpc' = IF AddTimeOf(xtimeStart, xtimeEnd, DefaultReferenceDate,
                           offsetYears).err = "none"
              THEN "returned" ELSE "raised"
    /\ UNCHANGED <<xtimeStart, xtimeEnd, offsetYears>>

TimeNext == AddTime

\* The stamp written in a string of the time series.
StampOf(s) == CHOOSE v \in StartStamps \cup EndStamps : StampString(v) = s
Midnight(v) == <<v[1], v[2], v[3], 0, 0, 0>>
OffsetDays == offsetYears * 365 * DayUnit

\* C13 as stated: time_bnds[i] holds the days since the reference date of the
\* parsed start and end timestamps of step i, each plus offsetYears * 365,
\* time[i] is their mean, and time[i] lies within its bounds when the start
\* is not after the end.
C13_TimeBoundsOfParsedStamps ==
    tpc = "returned" =>
        \A i \in Times :
            LET daysStart == OffsetDays + NoLeapDays(StampOf(xtimeStart[i]))
                                - NoLeapDays(DefaultReferenceDate)
                daysEnd == OffsetDays + NoLeapDays(StampOf(xtimeEnd[i]))
                              - NoLeapDays(DefaultReferenceDate)
            IN /\ timeOut.time_bnds[i] = <<daysStart, daysEnd>>
               /\ 2 * timeOut.time[i] = daysStart + daysEnd
               /\ daysStart <= daysEnd =>
                      /\ timeOut.time_bnds[i][1] <= timeOut.time[i]
                      /\ timeOut.time[i] <= timeOut.time_bnds[i][2]

\* C13: the time axis.  time_bnds[i] = (daysStart[i], daysEnd[i]) where
\* daysStart[i] is the day count of 00:00:00 on the date of the start
\* timestamp (its first 10 characters) and daysEnd[i] the day count of the
\* parsed end timestamp, both in the 365-day calendar since the reference
\* date and both plus offsetYears * 365; time[i] is their mean, and lies
\* within its bounds when the start date is not after the end.
C13_TimeBoundsOfStartDate ==
    tpc = "returned" =>
        \A i \in Times :
            LET daysStart == OffsetDays
                                + NoLeapDays(Midnight(StampOf(xtimeStart[i])))
                                - NoLeapDays(DefaultReferenceDate)
                daysEnd == OffsetDays + NoLeapDays(StampOf(xtimeEnd[i]))
                              - NoLeapDays(DefaultReferenceDate)
            IN /\ timeOut.time_bnds[i] = <<daysStart, daysEnd>>
               /\ 2 * timeOut.time[i] = daysStart + daysEnd
               /\ daysStart <= daysEnd =>
                      /\ timeOut.time_bnds[i][1] <= timeOut.time[i]
                      /\ timeOut.time[i] <= timeOut.time_bnds[i][2]

\* An axis with an offset of one year whose first step starts at 00:30:00.
C13_Witness ==
    /\ tpc = "returned"
    /\ offsetYears = 1
    /\ StampOf(xtimeStart[1]) = <<1, 1, 1, 0, 30, 0>>
    /\ timeOut.time_bnds[1][1] = 365 * DayUnit
    /\ timeOut.time_bnds[1][1] < timeOut.time[1]

(***************************************************************************)
(* get_cell_masks (mpas.py 182-195) and _compute_depth (mpas.py 569-599)   *)
(***************************************************************************)

NoMasks == [err |-> "none", cellMask2D |-> <<>>, cellMask3D |-> <<>>]

\* lines 185-195: the two masks; vertIndex is numpy.arange(nVertLevels), the
\* 0-based level.  Nothing checks the range of maxLevelCell.
GetCellMasksOf(levels) ==
    [err |-> "none",
     cellMask2D |-> [c \in 1..Len(levels) |-> levels[c] > 0],
     cellMask3D |-> [c \in 1..Len(levels) |->
                        [k \in Levels |-> (k - 1) < levels[c]]]]

\* Depths are held in units of 0.5 m, so that the layer centres are integers:
\* refBottomDepth = [10, 20, 35] m is <<20, 40, 70>>.
DepthValues == {20, 40, 70}
MaxDepthLevels == NVertLevels + 1
DepthProfiles == UNION {[1..n -> DepthValues] : n \in 1..MaxDepthLevels}

\* A variant of line 596 that takes the lower bounds from refBottomDepth[1:].
ComputeDepthOfShifted(ref) ==
    LET bnds == [k \in 1..Len(ref) |->
                    <<IF k = 1 THEN 0 ELSE ref[k], ref[k]>>]
    IN [depth |-> [k \in 1..Len(ref) |-> Half(bnds[k][1] + bnds[k][2])],
        depth_bnds |-> bnds]

\* lines 591-597
ComputeDepthOf(ref) ==
    LET bnds == [k \in 1..Len(ref) |->
                    <<IF k = 1 THEN 0 ELSE ref[k - 1], ref[k]>>]
    IN [depth |-> [k \in 1..Len(ref) |-> Half(bnds[k][1] + bnds[k][2])],
        depth_bnds |-> bnds]

MeshInit ==
    /\ maxLevelCell \in [Cells -> (0 - 1)..(NVertLevels + 1)]
    /\ refBottomDepth \in DepthProfiles
    /\ gpc = "start"
    /\ masksOut = NoMasks
    /\ dpc = "start"
    /\ depthOut = [depth |-> <<>>, depth_bnds |-> <<>>]

\* maxLevelCell belongs to the MOC inputs, idle with them.
MeshIdle ==
    /\ refBottomDepth = <<>>
    /\ gpc = "idle"
    /\ masksOut = NoMasks
    /\ dpc = "idle"
    /\ depthOut = [depth |-> <<>>, depth_bnds |-> <<>>]

\* lines 182-195: get_cell_masks returns the two masks.
GetCellMasks ==
    /\ UNCHANGED <<remapVars, interpVars, mocVars, dateVars, timeVars,
                   normVars, handleVars, chunkVars, floorVars>>
    /\ gpc = "start"
    /\ masksOut' = GetCellMasksOf(maxLevelCell)
    /\ gpc' = "returned"
    /\ UNCHANGED <<refBottomDepth, dpc, depthOut>>

\* lines 569-599: _compute_depth returns depth and depth_bnds.
ComputeDepth ==
    /\ UNCHANGED <<remapVars, interpVars, mocVars, dateVars, timeVars,
                   normVars, handleVars, chunkVars, floorVars>>
    /\ dpc = "start"
    /\ depthOut' = ComputeDepthOf(refBottomDepth)
    /\ dpc' = "returned"
    /\ UNCHANGED <<refBottomDepth, gpc, masksOut>>

MeshNext == GetCellMasks \/ ComputeDepth

\* C15: get_cell_masks fails with InvalidMeshError, and returns no masks,
\* when some maxLevelCell lies outside [0, nVertLevels]; otherwise it returns
\* CellMask2D = (maxLevelCell > 0) and CellMask3D[cell, level] =
\* (level < maxLevelCell[cell]) for the 0-based level.
C15_InvalidMeshError ==
    gpc \in {"returned", "raised"} =>
        IF \E c \in Cells : maxLevelCell[c] \notin 0..NVertLevels
        THEN /\ gpc = "raised"
             /\ masksOut.err = "InvalidMeshError"
             /\ masksOut.cellMask2D = <<>>
             /\ masksOut.cellMask3D = <<>>
        ELSE /\ gpc = "returned"
             /\ \A c \in Cells :
                   /\ masksOut.cellMask2D[c] = (maxLevelCell[c] > 0)
                   /\ \A k \in Levels :
                         masksOut.cellMask3D[c][k] = ((k - 1) < maxLevelCell[c])

\* C16: _compute_depth.  depth_bnds[0,0] = 0, depth_bnds[k,0] =
\* refBottomDepth[k-1] for k > 0, depth_bnds[k,1] = refBottomDepth[k], depth[k]
\* is the mean of its two bounds; a strictly increasing positive
\* refBottomDepth gives rows with lower <= upper and contiguous rows; and
\* [10, 20, 35] gives depth [5, 15, 27.5], bounds [[0,10],[10,20],[20,35]].
C16_DepthAndBounds ==
    dpc = "returned" =>
        LET ref == refBottomDepth
            n == Len(refBottomDepth)
            depth == depthOut.depth
            depth_bnds == depthOut.depth_bnds
        IN /\ Len(depth) = n /\ Len(depth_bnds) = n
           /\ depth_bnds[1][1] = 0
           /\ \A k \in 2..n : depth_bnds[k][1] = ref[k - 1]
           /\ \A k \in 1..n :
                 /\ depth_bnds[k][2] = ref[k]
                 /\ 2 * depth[k] = depth_bnds[k][1] + depth_bnds[k][2]
           /\ (ref[1] > 0 /\ \A k \in 2..n : ref[k - 1] < ref[k]) =>
                 /\ \A k \in 1..n : depth_bnds[k][1] <= depth_bnds[k][2]
                 /\ \A k \in 1..(n - 1) :
                       depth_bnds[k][2] = depth_bnds[k + 1][1]
           /\ ref = <<20, 40, 70>> =>
                 /\ depth = <<10, 30, 55>>
                 /\ depth_bnds = <<<<0, 20>>, <<20, 40>>, <<40, 70>>>>

\* The example of the claim has been computed.
C16_Witness ==
    /\ dpc = "returned"
    /\ refBottomDepth = <<20, 40, 70>>
    /\ depthOut.depth = <<10, 30, 55>>

(***************************************************************************)
(* remap, lines 62-70: masking and normalizing the regridded data set      *)
(***************************************************************************)

\* Coverage fractions are held in hundredths: cellMask = 1.0 is 100, and the
\* default threshold 0.05 is 5.
CoverageScale == 100
threshold == 5
CoverageSamples == {0, 4, 5, 6, 100}

\* The dimensions of cellMask, and the variables of the regridded data set
\* besides cellMask: one on the grid of the mask, one without its dimensions.
MaskDims == {"lat", "lon"}
GridFields == {[c \in Cells |-> 60 * c], [c \in Cells |-> 7]}
DsVariables(gridField) ==
    <<[key |-> "zhalfo",
       val |-> [dims |-> {"time", "lat", "lon"}, data |-> gridField]],
      [key |-> "time_bnds",
       val |-> [dims |-> {"time", "nbnd"}, data |-> <<3, 9>>]]>>

\* A quotient num / den that is not NaN.
Quot(n, d) == [nan |-> FALSE, num |-> n, den |-> d]
NaNQuot == [nan |-> TRUE, num |-> 0, den |-> 1]

\* lines 63-70 for the data of one variable on the grid of the mask:
\* var.where(mask) * norm with mask = cellMask > threshold and
\* norm = 1. / cellMask.where(mask).
MaskAndNormalizeOf(data, coverage) ==
    [c \in 1..Len(data) |->
        IF coverage[c] > threshold
        THEN Quot(data[c] * CoverageScale, coverage[c])
        ELSE NaNQuot]

\* lines 62-70 on the variables of the data set (cellMask apart).
NormalizeDatasetOf(variables, has, coverage) ==
    IF ~has THEN variables
    ELSE [i \in 1..Len(variables) |->
             IF MaskDims \subseteq variables[i].val.dims
             THEN [key |-> variables[i].key,
                   val |-> [dims |-> variables[i].val.dims,
                            data |-> MaskAndNormalizeOf(variables[i].val.data,
                                                        coverage)]]
             ELSE variables[i]]

NormInit ==
    /\ hasCellMask \in BOOLEAN
    /\ cellMaskField \in [Cells -> CoverageSamples]
    /\ \E g \in GridFields : dsIn = DsVariables(g)
    /\ npc = "start"
    /\ dsOut = <<>>
    /\ dsOutHasCellMask = FALSE

NormIdle ==
    /\ hasCellMask = FALSE
    /\ cellMaskField = <<>>
    /\ dsIn = <<>>
    /\ npc = "idle"
    /\ dsOut = <<>>
    /\ dsOutHasCellMask = FALSE

\* lines 62-70: without cellMask the data set stays as it is (cellMask is
\* then not in it); with it, cellMask is dropped and the variables on its
\* grid are masked and normalized.
NormalizeDataset ==
    /\ UNCHANGED <<remapVars, interpVars, mocVars, dateVars, timeVars,
                   meshVars, handleVars, chunkVars, floorVars>>
    /\ npc = "start"
    /\ dsOut' = NormalizeDatasetOf(dsIn, hasCellMask, cellMaskField)
    /\ dsOutHasCellMask' = FALSE
    /\ npc' = "done"
    /\ UNCHANGED <<hasCellMask, cellMaskField, dsIn>>

NormNext == NormalizeDataset

\* C17: with a cellMask in the regridded output, in every variable with all
\* the dimensions of the mask a point with coverage below the threshold is
\* undefined and a point with coverage at or above the threshold holds the
\* regridded value divided by its coverage; a variable without all the mask
\* dimensions is unchanged; cellMask is not among the returned variables.
C17_MaskAndNormalize ==
    (npc = "done" /\ hasCellMask) =>
        /\ ~dsOutHasCellMask
        /\ ~DictHas(dsOut, "cellMask")
        /\ Len(dsOut) = Len(dsIn)
        /\ \A i \in 1..Len(dsIn) :
              /\ dsOut[i].key = dsIn[i].key
              /\ IF MaskDims \subseteq dsIn[i].val.dims
                 THEN \A c \in Cells :
                          LET out == dsOut[i].val.data[c]
                              in == dsIn[i].val.data[c]
                          IN IF cellMaskField[c] < threshold
                             THEN out.nan
                             ELSE /\ ~out.nan
                                  /\ out.num * cellMaskField[c] =
                                         in * CoverageScale * out.den
                 ELSE dsOut[i] = dsIn[i]

(***************************************************************************)
(* zhalfo.handle from line 83 on, setup_cmor and write_cmor: where an      *)
(* error is detected and what the caller of the operation receives         *)
(***************************************************************************)

VAR_NAME == "zhalfo"
NAxes == 4
HandleOps == {"handle", "setup_cmor", "write_cmor"}
Components == {"ocean", "seaice", "land"}
HandleSteps == {"remap", "load_table", "variable", "write", "close"}

\* What the environment makes fail: the ncremap subprocess, cmor.load_table,
\* cmor.axis on one of the axes, cmor.variable, cmor.write, or nothing.
FaultsOf(op) ==
    CASE op = "handle" ->
             {"none", "remap", "load_table", "axis", "variable", "write"}
      [] op = "setup_cmor" -> {"none", "load_table"}
      [] op = "write_cmor" -> {"none", "axis", "variable", "write"}

HandleStart(op) ==
    CASE op = "handle" -> "remap"
      [] op = "setup_cmor" -> "setup"
      [] op = "write_cmor" -> "axes"

Raised(e) == [kind |-> "raised", val |-> e]
ReturnedValue(v) == [kind |-> "returned", val |-> v]
NoResult == [kind |-> "none", val |-> ""]

\* An exception leaving write_cmor: handle catches it and returns ""
\* (zhalfo.py lines 103-106); a direct caller of write_cmor receives it.
LeavesWriteCmor(op, e) ==
    IF op = "handle" THEN ReturnedValue("") ELSE Raised(e)

HandleInit ==
    /\ hOp \in HandleOps
    /\ hFault \in FaultsOf(hOp)
    /\ hFaultAxis \in (IF hFault = "axis" THEN 1..NAxes ELSE {0})
    /\ hComponent \in (IF hOp = "setup_cmor" THEN Components ELSE {"ocean"})
    /\ hHasNaN \in (IF hOp = "setup_cmor" THEN {FALSE} ELSE BOOLEAN)
    /\ hpc = HandleStart(hOp)
    /\ hAxisIds = <<>>
    /\ hFilled = FALSE
    /\ hVarOpen = FALSE
    /\ hLogged = FALSE
    /\ hRuns = [s \in HandleSteps |-> 0]
    /\ hDetected = "none"
    /\ hResult = NoResult

HandleIdle ==
    /\ hOp = "none"
    /\ hFault = "none"
    /\ hFaultAxis = 0
    /\ hComponent = "ocean"
    /\ hHasNaN = FALSE
    /\ hpc = "idle"
    /\ hAxisIds = <<>>
    /\ hFilled = FALSE
    /\ hVarOpen = FALSE
    /\ hLogged = FALSE
    /\ hRuns = [s \in HandleSteps |-> 0]
    /\ hDetected = "none"
    /\ hResult = NoResult

HandleOthers ==
    UNCHANGED <<remapVars, interpVars, mocVars, dateVars, timeVars, meshVars,
                normVars, chunkVars, floorVars>>

\* zhalfo.py line 83: mpas.remap; a failing ncremap raises
\* CalledProcessError out of remap (mpas.py line 61) and out of handle.
HandleRemap ==
    /\ HandleOthers
    /\ hpc = "remap"
    /\ hRuns' = [hRuns EXCEPT !["remap"] = @ + 1]
    /\ IF hFault = "remap"
       THEN /\ hDetected' = "remap"
            /\ hResult' = Raised("CalledProcessError")
            /\ hpc' = "finished"
       ELSE /\ hpc' = "setup"
            /\ UNCHANGED <<hDetected, hResult>>
    /\ UNCHANGED <<hOp, hFault, hFaultAxis, hComponent, hHasNaN, hAxisIds,
                   hFilled, hVarOpen, hLogged>>

\* setup_cmor, lines 303-323 (zhalfo.py line 87 with component = 'ocean').
SetupCmor ==
    /\ HandleOthers
    /\ hpc = "setup"
    /\ IF hComponent \notin {"ocean", "seaice"}
       THEN /\ hDetected' = "component"
            /\ hResult' = Raised("ValueError")
            /\ hpc' = "finished"
            /\ UNCHANGED hRuns
       ELSE /\ hRuns' = [hRuns EXCEPT !["load_table"] = @ + 1]
            /\ IF hFault = "load_table"
               THEN /\ hDetected' = "load_table"
                    /\ hResult' = Raised("ValueError")
                    /\ hpc' = "finished"
               ELSE /\ hDetected' = hDetected
                    /\ IF hOp = "setup_cmor"
                       THEN /\ hResult' = ReturnedValue("None")
                            /\ hpc' = "finished"
                       ELSE /\ hResult' = hResult
                            /\ hpc' = "axes"
    /\ UNCHANGED <<hOp, hFault, hFaultAxis, hComponent, hHasNaN, hAxisIds,
                   hFilled, hVarOpen, hLogged>>

\* write_cmor, lines 329-331: one cmor.axis call of the loop.
CmorAxis ==
    /\ HandleOthers
    /\ hpc = "axes"
    /\ Len(hAxisIds) < NAxes
    /\ LET i == Len(hAxisIds) + 1
       IN IF hFault = "axis" /\ hFaultAxis = i
          THEN /\ hDetected' = "axis"
               /\ hResult' = LeavesWriteCmor(hOp, "CMORError")
               /\ hpc' = "finished"
               /\ UNCHANGED hAxisIds
          ELSE /\ hAxisIds' = Append(hAxisIds, i)
               /\ hpc' = IF i = NAxes THEN "fill" ELSE "axes"
               /\ UNCHANGED <<hDetected, hResult>>
    /\ UNCHANGED <<hOp, hFault, hFaultAxis, hComponent, hHasNaN, hFilled,
                   hVarOpen, hLogged, hRuns>>

\* write_cmor, lines 333-336: NaNs are replaced by the fill value.
FillMissing ==
    /\ HandleOthers
    /\ hpc = "fill"
    /\ hFilled' = hHasNaN
    /\ hpc' = "variable"
    /\ UNCHANGED <<hOp, hFault, hFaultAxis, hComponent, hHasNaN, hAxisIds,
                   hVarOpen, hLogged, hRuns, hDetected, hResult>>

\* write_cmor, lines 339-340: cmor.variable, outside the try of line 343.
CmorVariable ==
    /\ HandleOthers
    /\ hpc = "variable"
    /\ hRuns' = [hRuns EXCEPT !["variable"] = @ + 1]
    /\ IF hFault = "variable"
       THEN /\ hDetected' = "variable"
            /\ hResult' = LeavesWriteCmor(hOp, "CMORError")
            /\ hpc' = "finished"
            /\ UNCHANGED hVarOpen
       ELSE /\ hVarOpen' = TRUE
            /\ hpc' = "write"
            /\ UNCHANGED <<hDetected, hResult>>
    /\ UNCHANGED <<hOp, hFault, hFaultAxis, hComponent, hHasNaN, hAxisIds,
                   hFilled, hLogged>>

\* write_cmor, lines 343-353, and zhalfo.py lines 103-107: cmor.write; on an
\* exception it is logged and raised again; the variable is closed either
\* way; handle returns VAR_NAME after a normal return of write_cmor.
CmorWrite ==
    /\ HandleOthers
    /\ hpc = "write"
    /\ hRuns' = [hRuns EXCEPT !["write"] = @ + 1, !["close"] = @ + 1]
    /\ hVarOpen' = FALSE
    /\ IF hFault = "write"
       THEN /\ hDetected' = "write"
            /\ hLogged' = TRUE
            /\ hResult' = LeavesWriteCmor(hOp, "CMORError")
       ELSE /\ hResult' = ReturnedValue(IF hOp = "handle" THEN VAR_NAME
                                        ELSE "None")
            /\ UNCHANGED <<hDetected, hLogged>>
    /\ hpc' = "finished"
    /\ UNCHANGED <<hOp, hFault, hFaultAxis, hComponent, hHasNaN, hAxisIds,
                   hFilled>>

HandleNext ==
    \/ HandleRemap
    \/ SetupCmor
    \/ CmorAxis
    \/ FillMissing
    \/ CmorVariable
    \/ CmorWrite

\* C18: an error detected while a variable is processed (a failing remap
\* subprocess, a rejection or write failure in the output writer, an unknown
\* component in setup_cmor) reaches the caller of the operation as an error,
\* never as a normal return value (in particular not from zhalfo.handle when
\* write_cmor fails), and no step is executed more than once.
C18_FailFastPropagation ==
    /\ \A s \in HandleSteps : hRuns[s] <= 1
    /\ hDetected # "none" => (hpc = "finished" /\ hResult.kind = "raised")

(***************************************************************************)
(* compute_moc_streamfunction on an input chunked along Time (mpas.py      *)
(* 404-405): the blocks are computed as separate tasks, in any order       *)
(***************************************************************************)

\* line 405: 'Time': 6, the block length the code asks for.
TimeChunk == 6

\* The Time axis cut after the time steps in cuts: the blocks in axis order,
\* each the sequence of its (1-based) time steps.
BlocksOf(cuts) ==
    LET starts == SortedSeq({1} \cup {c + 1 : c \in cuts})
    IN [i \in 1..Len(starts) |->
           LET last == IF i = Len(starts) THEN NTime ELSE starts[i + 1] - 1
           IN [j \in 1..(last - starts[i] + 1) |-> starts[i] + j - 1]]

\* The blocks line 405 asks for, and every other way to cut the axis (the
\* chunks the files were opened with, line 229, need not be those).
RequestedBlocks == BlocksOf({c \in 1..(NTime - 1) : c % TimeChunk = 0})
TimePartitions ==
    {BlocksOf(cuts) : cuts \in SUBSET (1..(NTime - 1))} \cup {RequestedBlocks}

\* A variant of the block selection that counts the time steps from 1.
IselTimeFromStart(field, ts) == [i \in 1..Len(ts) |-> field[i]]

\* The block of a field with Time as its first dimension: all of the other
\* dimensions ('nCells': None, 'nVertLevels': None) at the time steps ts.
IselTime(field, ts) == [i \in 1..Len(ts) |-> field[ts[i]]]

\* The parts of an array joined along Time, in the order of the blocks.
RECURSIVE ConcatTime(_)
ConcatTime(parts) ==
    IF Len(parts) = 0 THEN <<>>
    ELSE parts[1] \o ConcatTime(Tail(parts))

\* The basins by position: 0 is Global (zero transport, every cell), r is
\* named region r.
Basins == 0..NRegions
BasinCellMask(b) ==
    IF b = 0 THEN [c \in Cells |-> 1] ELSE regionCellMasks[b]

\* lines 409-415 and 645-654 on one block: the transport of every named
\* region at the block's time steps.
BlockTransport(ts) ==
    LET nv == IselTime(totalNormalVelocity, ts)
        lte == LayerThicknessEdgeOf(IselTime(layerThickness, ts))
    IN [r \in Regions |-> RegionTransportIn(r, nv, lte)]

\* lines 636-637 and 666-668 on the gathered transport (.values): the seed
\* of every basin, for all time steps.
SeedsOf(tr) ==
    [i \in 1..(NRegions + 1) |->
        MocSliceOf(IF i = 1 THEN [t \in Times |-> [k \in Levels |-> 0]]
                   ELSE tr[i - 1])]

\* lines 674-690 on one block: every basin's latitude accumulation on the
\* block's part of the seed.
BlockMoc(ts, seeds) ==
    LET w == IselTime(totalVertVelocityTop, ts)
    IN [i \in 1..(NRegions + 1) |->
           BasinMocFrom(w, IselTime(seeds[i], ts), BasinCellMask(i - 1))]

\* The blocks' results joined along Time.
GatherTransportOf(parts) ==
    [r \in Regions |->
        ConcatTime([b \in 1..Len(parts) |-> parts[b][r]])]
GatherMocOf(parts) ==
    [i \in 1..(NRegions + 1) |->
        [mocSlices |-> [l \in 1..(NLat + 1) |->
             ConcatTime([b \in 1..Len(parts) |-> parts[b][i].mocSlices[l]])],
         moc |-> ConcatTime([b \in 1..Len(parts) |-> parts[b][i].moc])]]

ChunkInit ==
    /\ timeBlocks \in TimePartitions
    /\ cpc = "transport"
    /\ blockTransport = [b \in 1..Len(timeBlocks) |-> <<>>]
    /\ chunkTransport = <<>>
    /\ chunkSeeds = <<>>
    /\ blockMoc = [b \in 1..Len(timeBlocks) |-> <<>>]
    /\ chunkMocs = <<>>
    /\ chunkOrder = <<>>

ChunkIdle ==
    /\ timeBlocks = <<>>
    /\ cpc = "idle"
    /\ blockTransport = <<>>
    /\ chunkTransport = <<>>
    /\ chunkSeeds = <<>>
    /\ blockMoc = <<>>
    /\ chunkMocs = <<>>
    /\ chunkOrder = <<>>

ChunkOthers ==
    UNCHANGED <<remapVars, interpVars, mocVars, dateVars, timeVars, meshVars,
                normVars, handleVars, floorVars>>

\* A worker computes the transport of one block that is still to do.
RunTransportBlock ==
    /\ ChunkOthers
    /\ cpc = "transport"
    /\ \E b \in 1..Len(timeBlocks) :
          /\ blockTransport[b] = <<>>
          /\ blockTransport' =
                 [blockTransport EXCEPT ![b] = BlockTransport(timeBlocks[b])]
          /\ chunkOrder' = Append(chunkOrder, b)
    /\ UNCHANGED <<timeBlocks, cpc, chunkTransport, chunkSeeds, blockMoc,
                   chunkMocs>>

\* lines 666-668: .values gathers the transport of all blocks; the seeds are
\* the cumsum over nVertLevels of the gathered array.
GatherTransport ==
    /\ ChunkOthers
    /\ cpc = "transport"
    /\ \A b \in 1..Len(timeBlocks) : blockTransport[b] # <<>>
    /\ chunkTransport' = GatherTransportOf(blockTransport)
    /\ chunkSeeds' = SeedsOf(GatherTransportOf(blockTransport))
    /\ cpc' = "moc"
    /\ UNCHANGED <<timeBlocks, blockTransport, blockMoc, chunkMocs,
                   chunkOrder>>

\* A worker computes the latitude accumulation of one block still to do.
RunMocBlock ==
    /\ ChunkOthers
    /\ cpc = "moc"
    /\ \E b \in 1..Len(timeBlocks) :
          /\ blockMoc[b] = <<>>
          /\ blockMoc' =
                 [blockMoc EXCEPT ![b] = BlockMoc(timeBlocks[b], chunkSeeds)]
          /\ chunkOrder' = Append(chunkOrder, b)
    /\ UNCHANGED <<timeBlocks, cpc, blockTransport, chunkTransport,
                   chunkSeeds, chunkMocs>>

\* lines 692-697: the computed streamfunction of every basin, all blocks.
GatherMoc ==
    /\ ChunkOthers
    /\ cpc = "moc"
    /\ \A b \in 1..Len(timeBlocks) : blockMoc[b] # <<>>
    /\ chunkMocs' = GatherMocOf(blockMoc)
    /\ cpc' = "done"
    /\ UNCHANGED <<timeBlocks, blockTransport, chunkTransport, chunkSeeds,
                   blockMoc, chunkOrder>>

ChunkNext ==
    \/ RunTransportBlock
    \/ GatherTransport
    \/ RunMocBlock
    \/ GatherMoc

\* The transport of basin b in a single pass over all time steps.
SinglePassTransport(b) ==
    IF b = 0 THEN [t \in Times |-> [k \in Levels |-> 0]]
    ELSE RegionTransport(b)

bottomDepth == [c \in Cells |-> 10 * c]

\* a - b with NaN carried through
NaNMinus(a, b) == IF a.nan \/ b.nan THEN NaN ELSE Num(a.v - b.v)

\* lines 182-195, cellMask3D at a cell and a 0-based level.
CellMask3DAt(levels, c, zIndex) == zIndex < levels[c]

\* zhalfo.py lines 70-72 up to and including the 0-based level zIndex:
\* zLayerBot of one time step and cell, from zSurface down; lt is the
\* thickness column after line 59.
RECURSIVE ZLayerBot(_, _, _, _, _)
ZLayerBot(zSurface, lt, levels, c, zIndex) ==
    LET above == IF zIndex = 0 THEN zSurface
                 ELSE ZLayerBot(zSurface, lt, levels, c, zIndex - 1)
    IN IF CellMask3DAt(levels, c, zIndex)
       THEN NaNMinus(above, lt[zIndex + 1])
       ELSE NaN

\* zhalfo.py lines 58-76: the slices along olevhalf for a thickness field
\* thickness[Time][cell][level] and the mesh's maxLevelCell; the sum of line
\* 60 skips the NaNs of line 59.
ZhalfoOf(thickness, levels) ==
    [t \in DOMAIN thickness |-> [c \in Cells |->
        LET lt == [k \in Levels |->
                      IF CellMask3DAt(levels, c, k - 1)
                      THEN Num(thickness[t][c][k]) ELSE NaN]
            thicknessSum == SeqSum([k \in Levels |->
                                IF lt[k].nan THEN 0 ELSE lt[k].v])
            zSurface == IF CellMask3DAt(levels, c, 0)
                        THEN Num(thicknessSum - bottomDepth[c])
                        ELSE NaN
        IN <<zSurface>> \o
           [k \in Levels |-> ZLayerBot(zSurface, lt, levels, c, k - 1)]]]

\* lines 198-225 for one variable with the dims nVertLevels and nCells:
\* where(maxLevelCell - 1 == vertIndex), the sum over nVertLevels, and
\* where(cellMask2D).
SeaFloorValuesOf(field, levels) ==
    [t \in DOMAIN field |-> [c \in Cells |->
        IF levels[c] > 0
        THEN Num(SeqSum([k \in Levels |->
                 IF levels[c] - 1 = k - 1 THEN field[t][c][k] ELSE 0]))
        ELSE NaN]]

FloorInit ==
    /\ zpc = "start"
    /\ zhalfoOut = <<>>
    /\ spc = "start"
    /\ seaFloorOut = <<>>

FloorIdle ==
    /\ zpc = "idle"
    /\ zhalfoOut = <<>>
    /\ spc = "idle"
    /\ seaFloorOut = <<>>

FloorOthers ==
    UNCHANGED <<remapVars, interpVars, mocVars, dateVars, timeVars, meshVars,
                normVars, handleVars, chunkVars>>

\* zhalfo.py lines 49-76 on timeMonthly_avg_layerThickness.
ZhalfoLevels ==
    /\ FloorOthers
    /\ zpc = "start"
    /\ zhalfoOut' = ZhalfoOf(layerThickness, maxLevelCell)
    /\ zpc' = "done"
    /\ UNCHANGED <<spc, seaFloorOut>>

\* get_sea_floor_values on a data set holding the thickness field.
GetSeaFloorValues ==
    /\ FloorOthers
    /\ spc = "start"
    /\ seaFloorOut' = SeaFloorValuesOf(layerThickness, maxLevelCell)
    /\ spc' = "done"
    /\ UNCHANGED <<zpc, zhalfoOut>>

FloorNext ==
    \/ MocSetup
    \/ TransportStep
    \/ MocStep
    \/ MocConcat
    \/ ZhalfoLevels
    \/ GetSeaFloorValues

\* The 1-based levels of cell c below the sea floor: the 0-based levels
\* >= maxLevelCell[c].
BelowFloor(c) == {k \in Levels : k - 1 >= maxLevelCell[c]}

\* A field with the dims (Time, nCells, level) with another value at cell c
\* and level k, at every time step.
ChangedAt(field, c, k) ==
    [t \in DOMAIN field |-> [d \in Cells |-> [l \in DOMAIN field[t][d] |->
        IF d = c /\ l = k THEN field[t][d][l] + 2 ELSE field[t][d][l]]]]

\* The outputs of zhalfo.handle and of get_sea_floor_values are those of the
\* input with another value at the below-floor level k of cell c.
FloorSumsUnchanged(c, k) ==
    /\ zpc = "done" =>
          zhalfoOut = ZhalfoOf(ChangedAt(layerThickness, c, k), maxLevelCell)
    /\ spc = "done" =>
          seaFloorOut =
              SeaFloorValuesOf(ChangedAt(layerThickness, c, k), maxLevelCell)

\* The transport of every region computed so far and the latitude-bin sums
\* of the basin computed last are those of the input with another value at
\* the below-floor level k of cell c.
MocSumsUnchanged(c, k) ==
    /\ \A r \in Regions :
          TransportDone(r) =>
              DictGet(transport, regionNames[r + 1]) =
                  RegionTransportOver(r,
                      LayerThicknessEdgeOf(ChangedAt(layerThickness, c, k)))
    /\ MocStepRan =>
          mocSlices =
              BasinMocFrom(ChangedAt(totalVertVelocityTop, c, k),
                           MocSliceOf(DictGet(transport, LastBasin)),
                           DictGet(cellMasks, LastBasin)).mocSlices

\* C22: levels below the sea floor never contribute to a reduction.  For
\* every cell and every 0-based level >= maxLevelCell[cell], changing only
\* the input value at that cell and level leaves every reduced output
\* unchanged: the thickness sum and interface depths of zhalfo.handle, the
\* sea-floor sample of get_sea_floor_values, and the per-level transport sums
\* and latitude-bin sums of the MOC computation.
C22_BelowFloorNeverContributes ==
    \A c \in Cells :
        \A k \in BelowFloor(c) :
            /\ FloorSumsUnchanged(c, k)
            /\ MocSumsUnchanged(c, k)

UtilIdle ==
    /\ DateIdle /\ TimeIdle /\ MeshIdle /\ NormIdle /\ HandleIdle /\ ChunkIdle
    /\ FloorIdle

(***************************************************************************)
(* Specifications                                                          *)
(***************************************************************************)

\* The cells vary: latitudes and bottom levels.
InitMoc ==
    /\ MocInputs([Cells -> LatSamples], [Cells -> {0, NVertLevels}],
                 {DefaultMasks}, {DefaultNames}, {DefaultTransects})
    /\ MocStartState /\ RemapIdle /\ InterpIdleNoArea /\ UtilIdle
SpecMoc == InitMoc /\ [][MocNext]_vars

\* The transects vary.
InitMocTransects ==
    /\ MocInputs({DefaultLats}, {DefaultLevels}, {DefaultMasks},
                 {DefaultNames}, [Regions -> TransectMenu])
    /\ MocStartState /\ RemapIdle /\ InterpIdleNoArea /\ UtilIdle
SpecMocTransects == InitMocTransects /\ [][MocNext]_vars

\* The names and the cell masks of the regions vary.
InitMocNames ==
    /\ MocInputs({DefaultLats}, {DefaultLevels}, {DefaultMasks, UpperMasks},
                 [Regions -> RegionNameSet], {DefaultTransects})
    /\ MocStartState /\ RemapIdle /\ InterpIdleNoArea /\ UtilIdle
SpecMocNames == InitMocNames /\ [][MocNext]_vars

InitRemap == RemapInit /\ InterpIdle /\ MocIdle /\ UtilIdle
SpecRemap == InitRemap /\ [][RemapNext]_vars

InitInterp == InterpInit /\ RemapIdle /\ MocIdle /\ UtilIdle
SpecInterp == InitInterp /\ [][InterpNext]_vars

InitDate ==
    /\ DateInit /\ TimeIdle /\ MeshIdle /\ NormIdle /\ HandleIdle /\ ChunkIdle
    /\ FloorIdle /\ RemapIdle /\ InterpIdle /\ MocIdle
SpecDate == InitDate /\ [][DateNext]_vars

InitTime ==
    /\ TimeInit /\ DateIdle /\ MeshIdle /\ NormIdle /\ HandleIdle /\ ChunkIdle
    /\ FloorIdle /\ RemapIdle /\ InterpIdle /\ MocIdle
SpecTime == InitTime /\ [][TimeNext]_vars

\* The frame of the MOC part with the mesh's maxLevelCell left to MeshInit.
InitMesh ==
    /\ MeshInit /\ DateIdle /\ TimeIdle /\ NormIdle /\ HandleIdle /\ ChunkIdle
    /\ FloorIdle /\ RemapIdle /\ InterpIdle
    /\ MocIdleNoLevels
SpecMesh == InitMesh /\ [][MeshNext]_vars

InitNorm ==
    /\ NormInit /\ DateIdle /\ TimeIdle /\ MeshIdle /\ HandleIdle /\ ChunkIdle
    /\ FloorIdle /\ RemapIdle /\ InterpIdle
    /\ MocIdle
SpecNorm == InitNorm /\ [][NormNext]_vars

InitHandle ==
    /\ HandleInit /\ DateIdle /\ TimeIdle /\ MeshIdle /\ NormIdle /\ ChunkIdle
    /\ FloorIdle /\ RemapIdle
    /\ InterpIdle /\ MocIdle
SpecHandle == InitHandle /\ [][HandleNext]_vars

\* The latitudes, the cell masks, the transects and the cut of the Time axis
\* vary.
InitMocChunks ==
    /\ MocInputs({DefaultLats, EquatorLats}, {DefaultLevels},
                 {DefaultMasks, UpperMasks}, {DefaultNames},
                 {DefaultTransects, AllEdgeTransects})
    /\ MocNotRunning /\ ChunkInit
    /\ DateIdle /\ TimeIdle /\ MeshIdle /\ NormIdle /\ HandleIdle /\ FloorIdle
    /\ RemapIdle /\ InterpIdleNoArea
SpecMocChunks == InitMocChunks /\ [][ChunkNext]_vars

\* The bottom level of every cell varies; the MOC computation, zhalfo.handle
\* and get_sea_floor_values run on the same mesh.
InitFloor ==
    /\ MocInputs({DefaultLats}, [Cells -> 0..NVertLevels], {DefaultMasks},
                 {DefaultNames}, {DefaultTransects})
    /\ MocStartState /\ FloorInit
    /\ DateIdle /\ TimeIdle /\ MeshIdle /\ NormIdle /\ HandleIdle /\ ChunkIdle
    /\ RemapIdle /\ InterpIdleNoArea
SpecFloor == InitFloor /\ [][FloorNext]_vars

====
